---- MODULE Spec2Model ----
(***************************************************************************)
(* Behaviour layer of the "L'Ile aux Oiseaux" site: the mobile navigation  *)
(* (the modular component class and the vanilla IIFE object), the FAQ      *)
(* accordion, the application's print handlers, the scroll spy, the        *)
(* vanilla header, the debounce and throttle wrappers over a clock, the    *)
(* lazy image loaders and the email and phone validators, as state         *)
(* machines over the part of the DOM they read and write.                  *)
(*                                                                         *)
(* One page runs one of the two variants; `variant` is fixed at load.      *)
(* Style fields that no handler reads back (opacity, transition, the       *)
(* focus-visible, keyboard-navigation and reduce-motion classes) are not   *)
(* kept. The nav root holds at least one .nav__link, an in-page link whose *)
(* target exists; the toggle is not inside the nav root.                   *)
(*                                                                         *)
(* Each specification runs one group of components and leaves the others   *)
(* in a fixed configuration.                                               *)
(***************************************************************************)
EXTENDS Integers, Sequences, FiniteSets, TLC

VARIABLES
  variant,       \* "modular" (App + component classes) or "vanilla" (IIFE)
  nav,           \* MobileNav: isOpen, open class of the nav root, toggle attributes
  faq,           \* per FAQ item: question aria-expanded, item open attribute, answer display
  fadeTimers,    \* per FAQ answer: pending Animation.fadeOut timeouts
  reducedMotion, \* matchMedia('(prefers-reduced-motion: reduce)').matches
  focus,         \* document.activeElement
  live,          \* live regions A11y.announce has appended to the body, oldest first
  focusTimers,   \* vanilla openNav: pending setTimeout(() => firstLink.focus(), 100)
  innerWidth,    \* window.innerWidth
  resizeTimer,   \* the resize handler's pending timeout
  printing,      \* between a beforeprint event and its afterprint
  sections,      \* ScrollSpy.sections in DOM order: offsetTop and offsetHeight
  navLinks,      \* ScrollSpy.navLinks in DOM order: the section id each href names
  scrollY,       \* window.scrollY
  currentSection,\* ScrollSpy.currentSection, 0 for null
  active,        \* per nav link: carries the class nav__link--active
  spyTimer,      \* the scroll listener's pending timeout
  pageYOffset,   \* window.pageYOffset as the vanilla header reads it
  scrollTop,     \* document.documentElement.scrollTop
  header,        \* the .header element: present, carries the class scrolled
  lastScrollTop, \* HeaderManager.lastScrollTop
  inThrottle,    \* the flag of the wrapper Utils.throttle gave the header
  wrapper,       \* the wrapper under study: which helper built it
  wait,          \* its wait (limit) argument, in clock ticks
  now,           \* the clock
  timers,        \* the timeouts pending in the event loop: handle, due time, arguments
  timeout,       \* the wrapper's closure variable timeout, 0 while it holds no handle
  wrapInThrottle,\* the closure variable inThrottle of a Utils.throttle wrapper
  nextId,        \* the handle the next setTimeout returns
  hist,          \* calls and invocations of the wrapper so far (history)
  hasIO,         \* 'IntersectionObserver' in window
  hasNativeLoading, \* 'loading' in HTMLImageElement.prototype
  images,        \* per img element the loader selected: src, data-src, class loaded
  observed,      \* the images the lazy loader's observer observes
  deferred,      \* per image: the data-src attribute of the markup (history)
  srcWrites,     \* per image: how often the loader has assigned src (history)
  input,         \* the string handed to the validators, a sequence of characters
  verdict,       \* what the two validators of one kind returned for it
  fields,        \* FormValidator.fields in order: attributes, value, error marking
  errors,        \* per field: the texts of the elements with id <field id>-error
  outcome,       \* what the last validateField or handleSubmit did (history)
  formFocus,     \* the field that has the focus, 0 for an element outside the fields
  submitBtn,     \* the form's button[type="submit"]: present, disabled, textContent
  runs,          \* the submitForm calls awaiting simulateSubmission: handle, originalText
  banners,       \* the alert elements in front of the form: handle, kind
  regions,       \* the announcer elements A11y.announce appended for the form
  pending,       \* the timeouts the form's code has set: handle, due time, callback
  focusable,     \* focusTrap: the length of focusableElements
  activeElement, \* the element of focusableElements that has the focus, 0 for none
  trapListeners, \* keydown listeners of the container that are trapFocus
  activations,   \* calls of activate() so far (history)
  destroyed,     \* destroy() has been called on the widget under study
  anchors,       \* which of the elements the bootstrap looks for are on the page
  boot,          \* what the DOM-ready bootstrap has done: listeners, initial state
  reports,       \* diagnostic records reportError has logged so far
  last           \* the event or call handled last (history, read by no handler)

wvars == <<variant, nav, faq, fadeTimers, reducedMotion, focus, live,
           focusTimers, innerWidth, resizeTimer, printing>>

svars == <<sections, navLinks, scrollY, currentSection, active, spyTimer>>

hvars == <<pageYOffset, scrollTop, header, lastScrollTop, inThrottle>>

\* everything outside the widgets and the scroll spy
tvars == <<wrapper, wait, now, timers, timeout, wrapInThrottle, nextId, hist>>

lvars == <<hasIO, hasNativeLoading, images, observed, deferred, srcWrites>>

fvars == <<input, verdict>>

gvars == <<fields, errors, outcome, formFocus, submitBtn, runs, banners,
           regions, pending>>

pvars == <<focusable, activeElement, trapListeners, activations, destroyed>>

bvars == <<anchors, boot, reports>>

xvars == <<hvars, tvars, lvars, fvars, gvars, pvars, bvars>>

vars == <<wvars, svars, xvars, last>>

\* ------------------------------------------------------------------ bounds

NumFaq == 2
MaxLive == 2
MaxFocusTimers == 1
MaxFade == 1

NumSections == 3
NumLinks == 2

MaxLen == 5
MaxPrefix == 2
MaxRun == 10

NumImages == 2
MaxEntries == 2

MaxWait == 2
MaxTime == 5
MaxCalls == 3

NumFields == 2
MaxPending == 2
MaxSeconds == 3
STEP == 1000
NumFocusable == 3
MaxActivations == 2
MaxReports == 2

BREAKPOINT == 768
INPUT_DEBOUNCE == 300
ANNOUNCE_DELAY == 1000
SUBMISSION_LATENCY == 2000
BANNER_DELAY == 5000
HEADER_OFFSET == 100
SCROLLED_THRESHOLD == 20
PHONE_MIN == 8
FORM_PHONE_MIN == 10

Variants == {"modular", "vanilla"}
Widths == {BREAKPOINT - 1, BREAKPOINT, BREAKPOINT + 1}
Keys == {"Escape", "Tab"}
FocusTargets == {"other", "navLink", "section"}
Items == 1..NumFaq
Tops == {100, 200}
Heights == {100, 200}
ScrollPositions == {0, 100, 200, 300}

\* ------------------------------------------------------------- the helpers

\* The DOM and widget state the handlers of one event dispatch work on.
\* `outside` records that the document-level outside-click branch ran.
World ==
  [nav |-> nav, faq |-> faq, fadeTimers |-> fadeTimers, focus |-> focus,
   live |-> live, focusTimers |-> focusTimers, outside |-> FALSE,
   scrolls |-> 0,   \* smooth scrolls this dispatch has started (history)
   pushes |-> 0]    \* history.pushState calls of this dispatch (history)

InBounds(w) ==
  /\ Len(w.live) <= MaxLive
  /\ w.focusTimers <= MaxFocusTimers
  /\ \A i \in Items : w.fadeTimers[i] <= MaxFade

Commit(w, op, arg, idx) ==
  /\ InBounds(w)
  /\ nav' = w.nav
  /\ faq' = w.faq
  /\ fadeTimers' = w.fadeTimers
  /\ focus' = w.focus
  /\ live' = w.live
  /\ focusTimers' = w.focusTimers
  /\ last' = [op |-> op, arg |-> arg, idx |-> idx,
              wasOpen |-> nav.isOpen, outside |-> w.outside,
              scrolls |-> w.scrolls, pushes |-> w.pushes]
  /\ UNCHANGED <<svars, xvars>>

\* A11y.announce: a live region is appended to the body (its removal is the
\* timeout LiveRemove).
announce(w, message, priority) ==
  [w EXCEPT !.live = Append(@, [text |-> message, priority |-> priority])]

\* ------------------------------------------------- MobileNav (modular class)

openNav(w) ==
  announce([w EXCEPT !.nav.isOpen = TRUE,
                     !.nav.openClass = TRUE,
                     !.nav.expanded = "true",
                     !.nav.label = "close",
                     !.focus = "navLink"],
           "Menu ouvert", "polite")

closeNav(w) ==
  announce([w EXCEPT !.nav.isOpen = FALSE,
                     !.nav.openClass = FALSE,
                     !.nav.expanded = "false",
                     !.nav.label = "hamburger"],
           "Menu ferme", "polite")

toggleNav(w) == IF w.nav.isOpen THEN closeNav(w) ELSE openNav(w)

\* navKeydown comparing against the legacy key name, so that it never matches
navKeydownLegacyKey(w, key) ==
  IF key = "Esc" /\ w.nav.isOpen THEN closeNav(w) ELSE w

\* navKeydown also wired to FAQAccordion.closeAllItems
navKeydownClosingFaq(w, key) ==
  IF key = "Escape"
    THEN LET v == IF w.nav.isOpen THEN closeNav(w) ELSE w
         IN [v EXCEPT !.faq = [i \in Items |-> [@[i] EXCEPT !.expanded = "false",
                                                            !.openAttr = FALSE,
                                                            !.display = "none"]]]
    ELSE w

\* document keydown listener of MobileNav.init
navKeydown(w, key) ==
  IF key = "Escape" /\ w.nav.isOpen THEN closeNav(w) ELSE w

\* nav.contains(e.target) / toggle.contains(e.target)
InNav(target) == target \in {"navLink", "navOther"}
InToggle(target) == target = "toggle"

\* navDocumentClick without the toggle.contains(e.target) test
navDocumentClickNoToggleTest(w, target) ==
  IF w.nav.isOpen /\ ~InNav(target)
    THEN [closeNav(w) EXCEPT !.outside = TRUE]
    ELSE w

\* document click listener of MobileNav.init
navDocumentClick(w, target) ==
  IF w.nav.isOpen /\ ~InNav(target) /\ ~InToggle(target)
    THEN [closeNav(w) EXCEPT !.outside = TRUE]
    ELSE w

\* the function Events.throttle wraps for the resize listener
navResizeCheck(w) ==
  IF innerWidth > BREAKPOINT /\ w.nav.isOpen THEN closeNav(w) ELSE w

\* SmoothScroll.handleClick on an in-page link whose target exists
handleClick(w) ==
  [w EXCEPT !.pushes = @ + 1, !.scrolls = @ + 1, !.focus = "section"]

\* ------------------------------------------------ MobileNav (vanilla object)

openNavV(w) ==
  [w EXCEPT !.nav.isOpen = TRUE,
            !.nav.openClass = TRUE,
            !.nav.expanded = "true",
            !.nav.label = "close",
            !.focusTimers = @ + 1]

closeNavV(w) ==
  [w EXCEPT !.nav.isOpen = FALSE,
            !.nav.openClass = FALSE,
            !.nav.expanded = "false",
            !.nav.label = "hamburger"]

toggleNavV(w) == IF w.nav.isOpen THEN closeNavV(w) ELSE openNavV(w)

navKeydownV(w, key) ==
  IF key = "Escape" /\ w.nav.isOpen THEN closeNavV(w) ELSE w

navDocumentClickV(w, target) ==
  IF w.nav.isOpen /\ ~InNav(target) /\ ~InToggle(target)
    THEN [closeNavV(w) EXCEPT !.outside = TRUE]
    ELSE w

navResizeCheckV(w) ==
  IF innerWidth >= BREAKPOINT /\ w.nav.isOpen THEN closeNavV(w) ELSE w

\* SmoothScroll.scrollToSection with an existing target
scrollToSection(w) ==
  [w EXCEPT !.scrolls = @ + 1, !.pushes = @ + 1, !.focus = "section"]

\* MobileNav.handleLinkClick on an in-page nav link
handleLinkClick(w) ==
  scrollToSection(IF w.nav.isOpen THEN closeNavV(w) ELSE w)

\* ------------------------------------------------------------ FAQAccordion

\* Animation.fadeIn
fadeIn(w, i) == [w EXCEPT !.faq[i].display = "block"]

\* Animation.fadeOut: the display change waits for the timeout FadeTimerFire
fadeOut(w, i) == [w EXCEPT !.fadeTimers[i] = @ + 1]

\* openItem with the accordion behaviour that toggleItem keeps commented out:
\* every other item is closed first
openItemAccordion(w, i) ==
  [w EXCEPT !.faq = [j \in Items |->
     IF j = i THEN [@[j] EXCEPT !.expanded = "true", !.openAttr = TRUE,
                                !.display = "block"]
              ELSE [@[j] EXCEPT !.expanded = "false", !.openAttr = FALSE,
                                !.display = "none"]]]

openItem(w, i) ==
  LET v == [w EXCEPT !.faq[i].expanded = "true",
                     !.faq[i].openAttr = TRUE,
                     !.faq[i].display = "block"]
  IN IF ~reducedMotion THEN fadeIn(v, i) ELSE v

closeItem(w, i) ==
  LET v == [w EXCEPT !.faq[i].expanded = "false",
                     !.faq[i].openAttr = FALSE]
  IN IF ~reducedMotion THEN fadeOut(v, i)
     ELSE [v EXCEPT !.faq[i].display = "none"]

toggleItem(w, i) ==
  IF w.faq[i].expanded = "true" THEN closeItem(w, i) ELSE openItem(w, i)

\* ------------------------------------------------------- App print handling

\* beforeprint: every element with aria-expanded="false" is marked and expanded
beforePrintElement(e) ==
  IF e.expanded = "false"
    THEN [e EXCEPT !.wasCollapsed = TRUE, !.expanded = "true"]
    ELSE e

\* afterprint: every element with data-was-collapsed="true" is collapsed again
afterPrintElement(e) ==
  IF e.wasCollapsed
    THEN [e EXCEPT !.expanded = "false", !.wasCollapsed = FALSE]
    ELSE e

\* ------------------------------------------------------------------- Init

InitNav ==
  [isOpen |-> FALSE, openClass |-> FALSE, expanded |-> "false",
   label |-> "markup", wasCollapsed |-> FALSE]

\* FAQAccordion.init; the vanilla page has no accordion and leaves the markup
InitFaqItem(v) ==
  IF v = "modular"
    THEN [expanded |-> "false", openAttr |-> FALSE, display |-> "none",
          wasCollapsed |-> FALSE]
    ELSE [expanded |-> "absent", openAttr |-> FALSE, display |-> "block",
          wasCollapsed |-> FALSE]

\* App.announcePageLoad runs at the end of the modular bootstrap
InitLive(v) ==
  IF v = "modular"
    THEN <<[text |-> "Page chargee", priority |-> "polite"]>>
    ELSE <<>>

InitWidgets ==
  /\ variant \in Variants
  /\ nav = InitNav
  /\ faq = [i \in Items |-> InitFaqItem(variant)]
  /\ fadeTimers = [i \in Items |-> 0]
  /\ reducedMotion \in BOOLEAN
  /\ focus = "other"
  /\ live = InitLive(variant)
  /\ focusTimers = 0
  /\ innerWidth \in Widths
  /\ resizeTimer = FALSE
  /\ printing = FALSE
  /\ last = [op |-> "init", arg |-> "", idx |-> 0, wasOpen |-> FALSE,
             outside |-> FALSE]

\* A page without a .header element: HeaderManager.init returns before it
\* listens.
HeaderAtRest ==
  /\ pageYOffset = 0
  /\ scrollTop = 0
  /\ header = [present |-> FALSE, scrolled |-> FALSE]
  /\ lastScrollTop = 0
  /\ inThrottle = FALSE

NoTimeout == 0

NoHistory ==
  [calls |-> 0, lastCallAt |-> 0, lastCallArgs |-> "", invoked |-> <<>>,
   burstCalls |-> 0, burstInvoked |-> 0, burstStart |-> 0, late |-> FALSE]

\* No wrapper has been called and no timeout is pending.
TimersAtRest ==
  /\ wrapper = "Events.throttle"
  /\ wait = 1
  /\ now = 0
  /\ timers = {}
  /\ timeout = NoTimeout
  /\ wrapInThrottle = FALSE
  /\ nextId = 1
  /\ hist = NoHistory

\* the value of an attribute the element does not carry
Absent == "<absent>"

\* Images without a deferred source in a browser that has both capabilities.
LazyAtRest ==
  /\ hasIO = TRUE
  /\ hasNativeLoading = TRUE
  /\ images = [i \in 1..NumImages |->
                 [src |-> "placeholder", dataSrc |-> Absent, loaded |-> FALSE]]
  /\ observed = {}
  /\ deferred = [i \in 1..NumImages |-> Absent]
  /\ srcWrites = [i \in 1..NumImages |-> 0]

NoVerdict == [fn |-> "none", component |-> FALSE, form |-> FALSE]

\* No string has been validated.
InputsAtRest ==
  /\ input = <<>>
  /\ verdict = NoVerdict

NoOutcome ==
  [isValid |-> TRUE, message |-> "", evaluated |-> <<>>, validated |-> <<>>,
   prevented |-> FALSE, submitted |-> FALSE, announced |-> {},
   settled |-> {}, removed |-> {}]

\* A page without a validated form.
FormAtRest ==
  /\ fields = <<>>
  /\ errors = <<>>
  /\ outcome = NoOutcome
  /\ formFocus = 0
  /\ submitBtn = [present |-> FALSE, disabled |-> FALSE, text |-> ""]
  /\ runs = {}
  /\ banners = {}
  /\ regions = {}
  /\ pending = {}

\* No focus trap has been built and no widget destroyed.
TrapAtRest ==
  /\ focusable = 0
  /\ activeElement = 0
  /\ trapListeners = 0
  /\ activations = 0
  /\ destroyed = FALSE

NoAnchors ==
  [nav |-> FALSE, toggle |-> FALSE, form |-> FALSE, faq |-> FALSE,
   sections |-> FALSE, images |-> FALSE, header |-> FALSE]

NotBooted ==
  [ran |-> FALSE, listeners |-> {}, marks |-> {}, warned |-> FALSE,
   caught |-> FALSE, thrown |-> FALSE]

\* The bootstrap is not under observation.
BootAtRest ==
  /\ anchors = NoAnchors
  /\ boot = NotBooted
  /\ reports = 0

\* the components outside the widgets and the scroll spy, untouched
ExtrasAtRest ==
  /\ HeaderAtRest
  /\ TimersAtRest
  /\ LazyAtRest
  /\ InputsAtRest
  /\ FormAtRest
  /\ TrapAtRest
  /\ BootAtRest

\* ---------------------------------------------------------------- actions

\* One click, dispatched to the target's listeners and then, bubbling, to the
\* document's.
clickDispatch(w, target, i) ==
  LET atTarget ==
        CASE target = "toggle" -> toggleNav(w)
          [] target \in {"navLink", "pageLink"} -> handleClick(w)
          [] target = "faqQ" -> toggleItem(w, i)
          [] OTHER -> w
  IN navDocumentClick(atTarget, target)

clickDispatchV(w, target) ==
  LET atTarget ==
        CASE target = "toggle" -> toggleNavV(w)
          [] target = "navLink" -> scrollToSection(handleLinkClick(w))
          [] target = "pageLink" -> scrollToSection(w)
          [] OTHER -> w
  IN navDocumentClickV(atTarget, target)

Click(target, i) ==
  /\ variant = "modular"
  /\ Commit(clickDispatch(World, target, i), "click", target, i)
  /\ UNCHANGED <<variant, reducedMotion, innerWidth, resizeTimer, printing>>

ClickV(target) ==
  /\ variant = "vanilla"
  /\ Commit(clickDispatchV(World, target), "click", target, 0)
  /\ UNCHANGED <<variant, reducedMotion, innerWidth, resizeTimer, printing>>

Keydown(key) ==
  /\ variant = "modular"
  /\ Commit(navKeydown(World, key), "keydown", key, 0)
  /\ UNCHANGED <<variant, reducedMotion, innerWidth, resizeTimer, printing>>

KeydownV(key) ==
  /\ variant = "vanilla"
  /\ Commit(navKeydownV(World, key), "keydown", key, 0)
  /\ UNCHANGED <<variant, reducedMotion, innerWidth, resizeTimer, printing>>

\* A resize event: both variants clear the pending timeout and set a new one.
Resize(width) ==
  /\ innerWidth' = width
  /\ resizeTimer' = TRUE
  /\ Commit(World, "resize", "", 0)
  /\ UNCHANGED <<variant, reducedMotion, printing>>

ResizeTimerFire ==
  /\ resizeTimer
  /\ resizeTimer' = FALSE
  /\ Commit(IF variant = "modular" THEN navResizeCheck(World)
                                   ELSE navResizeCheckV(World),
            "resizeTimer", "", 0)
  /\ UNCHANGED <<variant, reducedMotion, innerWidth, printing>>

\* Direct calls of the public methods openNav / closeNav.
CallOpenNav ==
  /\ Commit(IF variant = "modular" THEN openNav(World) ELSE openNavV(World),
            "openNav", "", 0)
  /\ UNCHANGED <<variant, reducedMotion, innerWidth, resizeTimer, printing>>

CallCloseNav ==
  /\ Commit(IF variant = "modular" THEN closeNav(World) ELSE closeNavV(World),
            "closeNav", "", 0)
  /\ UNCHANGED <<variant, reducedMotion, innerWidth, resizeTimer, printing>>

\* vanilla openNav's 100 ms timeout
FocusTimerFire ==
  /\ focusTimers > 0
  /\ Commit([World EXCEPT !.focusTimers = @ - 1, !.focus = "navLink"],
            "focusTimer", "", 0)
  /\ UNCHANGED <<variant, reducedMotion, innerWidth, resizeTimer, printing>>

\* A11y.announce's 1 s timeout: the oldest live region is removed
LiveRemove ==
  /\ live # <<>>
  /\ Commit([World EXCEPT !.live = Tail(@)], "liveRemove", "", 0)
  /\ UNCHANGED <<variant, reducedMotion, innerWidth, resizeTimer, printing>>

\* Animation.fadeOut's timeout
FadeTimerFire(i) ==
  /\ fadeTimers[i] > 0
  /\ Commit([World EXCEPT !.fadeTimers[i] = @ - 1, !.faq[i].display = "none"],
            "fadeTimer", "", i)
  /\ UNCHANGED <<variant, reducedMotion, innerWidth, resizeTimer, printing>>

\* The user moves focus (Tab, pointer).
UserFocus(f) ==
  /\ f # focus
  /\ Commit([World EXCEPT !.focus = f], "userFocus", f, 0)
  /\ UNCHANGED <<variant, reducedMotion, innerWidth, resizeTimer, printing>>

BeforePrint ==
  /\ variant = "modular"
  /\ ~printing
  /\ printing' = TRUE
  /\ Commit([World EXCEPT !.nav = beforePrintElement(@),
                          !.faq = [i \in Items |-> beforePrintElement(@[i])]],
            "beforeprint", "", 0)
  /\ UNCHANGED <<variant, reducedMotion, innerWidth, resizeTimer>>

AfterPrint ==
  /\ variant = "modular"
  /\ printing
  /\ printing' = FALSE
  /\ Commit([World EXCEPT !.nav = afterPrintElement(@),
                          !.faq = [i \in Items |-> afterPrintElement(@[i])]],
            "afterprint", "", 0)
  /\ UNCHANGED <<variant, reducedMotion, innerWidth, resizeTimer>>

\* The user changes the reduced-motion preference of the system.
MotionChange ==
  /\ reducedMotion' = ~reducedMotion
  /\ Commit(World, "motionChange", "", 0)
  /\ UNCHANGED <<variant, innerWidth, resizeTimer, printing>>

\* ---------------------------------------------------------------- ScrollSpy

\* forEachSection keeping the first section whose range holds scrollPos
RECURSIVE forEachSectionFirst(_, _, _)
forEachSectionFirst(i, scrollPos, activeSection) ==
  IF i > Len(sections) THEN activeSection
  ELSE LET top == sections[i].offsetTop
           bottom == top + sections[i].offsetHeight
       IN forEachSectionFirst(i + 1, scrollPos,
            IF scrollPos >= top /\ scrollPos < bottom /\ activeSection = 0
              THEN i ELSE activeSection)

\* the forEach of updateActiveSection from section i on: activeSection is
\* assigned at every section whose range holds scrollPos
RECURSIVE forEachSection(_, _, _)
forEachSection(i, scrollPos, activeSection) ==
  IF i > Len(sections) THEN activeSection
  ELSE LET top == sections[i].offsetTop
           bottom == top + sections[i].offsetHeight
       IN forEachSection(i + 1, scrollPos,
            IF scrollPos >= top /\ scrollPos < bottom THEN i ELSE activeSection)

\* DOM.query(`a[href="#id"]`, nav): the first matching link, 0 for null
RECURSIVE queryLink(_, _)
queryLink(j, sectionId) ==
  IF j > Len(navLinks) THEN 0
  ELSE IF navLinks[j] = sectionId THEN j
  ELSE queryLink(j + 1, sectionId)

\* updateNavigation without the loop that removes the class from all links
updateNavigationNoClear(s, sectionId) ==
  LET activeLink == queryLink(1, sectionId)
  IN IF activeLink # 0 THEN [s EXCEPT !.active[activeLink] = TRUE] ELSE s

updateNavigation(s, sectionId) ==
  LET cleared == [j \in DOMAIN s.active |-> FALSE]
      activeLink == queryLink(1, sectionId)
  IN [s EXCEPT !.active = IF activeLink # 0
                            THEN [cleared EXCEPT ![activeLink] = TRUE]
                            ELSE cleared]

\* updateActiveSection that forgets the active section when no section
\* contains the point
updateActiveSectionResetting(s) ==
  LET scrollPos == scrollY + HEADER_OFFSET
      activeSection == forEachSection(1, scrollPos, 0)
  IN IF activeSection # s.currentSection
       THEN updateNavigation([s EXCEPT !.currentSection = activeSection],
                             activeSection)
       ELSE s

updateActiveSection(s) ==
  LET scrollPos == scrollY + HEADER_OFFSET
      activeSection == forEachSection(1, scrollPos, 0)
  IN IF activeSection # 0 /\ activeSection # s.currentSection
       THEN updateNavigation([s EXCEPT !.currentSection = activeSection],
                             activeSection)
       ELSE s

Spy == [currentSection |-> currentSection, active |-> active]

\* ScrollSpy's constructor and init: no link is active in the markup, and the
\* initial check has run at the scroll position the page loaded with.
InitSpy ==
  /\ sections \in [1..NumSections -> [offsetTop : Tops, offsetHeight : Heights]]
  /\ navLinks \in [1..NumLinks -> 1..NumSections]
  /\ scrollY \in ScrollPositions
  /\ spyTimer = FALSE
  /\ LET s == updateActiveSection(
                [currentSection |-> 0, active |-> [j \in 1..NumLinks |-> FALSE]])
     IN currentSection = s.currentSection /\ active = s.active

\* One page layout, for the specifications that do not scroll.
SpyAtRest ==
  /\ sections = [i \in 1..NumSections |-> [offsetTop |-> 100, offsetHeight |-> 100]]
  /\ navLinks = [j \in 1..NumLinks |-> 1]
  /\ scrollY = 0
  /\ spyTimer = FALSE
  /\ currentSection = NumSections
  /\ active = [j \in 1..NumLinks |-> FALSE]

\* The page of variant v with its widgets untouched.
WidgetsResting(v) ==
  /\ variant = v
  /\ nav = InitNav
  /\ faq = [i \in Items |-> InitFaqItem(v)]
  /\ fadeTimers = [i \in Items |-> 0]
  /\ reducedMotion = FALSE
  /\ focus = "other"
  /\ live = InitLive(v)
  /\ focusTimers = 0
  /\ innerWidth = BREAKPOINT
  /\ resizeTimer = FALSE
  /\ printing = FALSE
  /\ last = [op |-> "init", arg |-> "", idx |-> 0, wasOpen |-> FALSE,
             outside |-> FALSE]

\* The modular page with its widgets untouched, for the scroll specification.
WidgetsAtRest == WidgetsResting("modular")

\* A scroll event: the wrapper Events.throttle returns clears the pending
\* timeout and sets a new one.
Scroll(y) ==
  /\ scrollY' = y
  /\ spyTimer' = TRUE
  /\ last' = [op |-> "scroll", arg |-> "", idx |-> 0, wasOpen |-> nav.isOpen,
              outside |-> FALSE]
  /\ UNCHANGED <<wvars, xvars, sections, navLinks, currentSection, active>>

\* The timeout: updateActiveSection reads the scroll position of this moment.
SpyTimerFire ==
  /\ spyTimer
  /\ spyTimer' = FALSE
  /\ LET s == updateActiveSection(Spy)
     IN /\ currentSection' = s.currentSection
        /\ active' = s.active
  /\ last' = [op |-> "spyTimer", arg |-> "", idx |-> currentSection,
              wasOpen |-> nav.isOpen, outside |-> FALSE]
  /\ UNCHANGED <<wvars, xvars, sections, navLinks, scrollY>>

NextSpy ==
  \/ \E y \in ScrollPositions : Scroll(y)
  \/ SpyTimerFire

\* the page as the scroll specification starts it
InitSpyPage == WidgetsAtRest /\ InitSpy /\ ExtrasAtRest

SpecSpy == InitSpyPage /\ [][NextSpy]_vars

\* The mobile navigation of either variant, with the print handlers of the
\* modular application.
NextNav ==
  \/ \E t \in {"toggle", "navLink", "pageLink", "navOther", "outside"} :
       Click(t, 0)
  \/ \E t \in {"toggle", "navLink", "pageLink", "navOther", "outside"} :
       ClickV(t)
  \/ \E k \in Keys : Keydown(k)
  \/ \E k \in Keys : KeydownV(k)
  \/ \E width \in Widths : Resize(width)
  \/ ResizeTimerFire
  \/ CallOpenNav
  \/ CallCloseNav
  \/ FocusTimerFire
  \/ LiveRemove
  \/ \E f \in FocusTargets : UserFocus(f)
  \/ BeforePrint
  \/ AfterPrint

\* the page as the widget specifications start it
InitWidgetsPage == InitWidgets /\ SpyAtRest /\ ExtrasAtRest

SpecNav == InitWidgetsPage /\ [][NextNav]_vars

\* The FAQ accordion beside the mobile navigation: clicks and keys reach
\* both.
NextFaq ==
  \/ \E t \in {"toggle", "outside"} : Click(t, 0)
  \/ \E i \in Items : Click("faqQ", i)
  \/ \E t \in {"toggle", "outside"} : ClickV(t)
  \/ \E k \in Keys : Keydown(k)
  \/ \E k \in Keys : KeydownV(k)
  \/ FocusTimerFire
  \/ LiveRemove
  \/ \E i \in Items : FadeTimerFire(i)
  \/ MotionChange

SpecFaq == InitWidgetsPage /\ [][NextFaq]_vars

\* ------------------------------------------------- HeaderManager (vanilla)

HeaderOffsets == {0 - 5, 0, 10, SCROLLED_THRESHOLD, SCROLLED_THRESHOLD + 1, 40}

\* the history stamp of an event outside the widgets
Stamp(op, arg, idx) ==
  [op |-> op, arg |-> arg, idx |-> idx, wasOpen |-> nav.isOpen,
   outside |-> FALSE]

\* window.pageYOffset || document.documentElement.scrollTop
currentScrollTopOf(y, top) == IF y # 0 THEN y ELSE top

\* handleScroll with the comparison currentScrollTop >= 20
handleScrollAtThreshold(h, y, top) ==
  LET currentScrollTop == currentScrollTopOf(y, top)
  IN [scrolled |-> currentScrollTop >= SCROLLED_THRESHOLD,
      lastScrollTop |-> IF currentScrollTop <= 0 THEN 0 ELSE currentScrollTop]

\* handleScroll on the header state h = [scrolled, lastScrollTop]
handleScroll(h, y, top) ==
  LET currentScrollTop == currentScrollTopOf(y, top)
  IN [scrolled |-> currentScrollTop > SCROLLED_THRESHOLD,
      lastScrollTop |-> IF currentScrollTop <= 0 THEN 0 ELSE currentScrollTop]

\* HeaderManager.init on a page loaded at any offset, with or without a
\* .header element; the markup's header does not carry the class.
InitHeader ==
  /\ pageYOffset \in HeaderOffsets
  /\ scrollTop \in {0, pageYOffset}
  /\ inThrottle = FALSE
  /\ \E present \in BOOLEAN :
       LET h == IF present
                  THEN handleScroll([scrolled |-> FALSE, lastScrollTop |-> 0],
                                    pageYOffset, scrollTop)
                  ELSE [scrolled |-> FALSE, lastScrollTop |-> 0]
       IN /\ header = [present |-> present, scrolled |-> h.scrolled]
          /\ lastScrollTop = h.lastScrollTop

\* A scroll event at offset y. In standards mode the root element's
\* scrollTop is the offset, in quirks mode it stays 0. The listener is the
\* wrapper Utils.throttle returned: it runs handleScroll and arms the flag,
\* or, the flag armed, does nothing.
HeaderScroll(y, top) ==
  /\ header.present
  /\ top \in {0, y}
  /\ (y = 0 => top = 0)
  /\ pageYOffset' = y
  /\ scrollTop' = top
  /\ IF ~inThrottle
       THEN LET h == handleScroll([scrolled |-> header.scrolled,
                                   lastScrollTop |-> lastScrollTop], y, top)
            IN /\ header' = [header EXCEPT !.scrolled = h.scrolled]
               /\ lastScrollTop' = h.lastScrollTop
               /\ inThrottle' = TRUE
               /\ last' = Stamp("handleScroll", "", 0)
       ELSE /\ UNCHANGED <<header, lastScrollTop, inThrottle>>
            /\ last' = Stamp("scrollDropped", "", 0)
  /\ UNCHANGED <<wvars, svars, tvars, lvars, fvars, gvars, pvars, bvars>>

\* setTimeout(() => (inThrottle = false), limit)
ThrottleTimerFire ==
  /\ inThrottle
  /\ inThrottle' = FALSE
  /\ last' = Stamp("throttleTimer", "", 0)
  /\ UNCHANGED <<wvars, svars, tvars, lvars, fvars, gvars, pvars, bvars, pageYOffset, scrollTop,
                 header, lastScrollTop>>

NextHeader ==
  \/ \E y \in HeaderOffsets, top \in HeaderOffsets : HeaderScroll(y, top)
  \/ ThrottleTimerFire

InitHeaderPage ==
  /\ WidgetsResting("vanilla")
  /\ SpyAtRest
  /\ InitHeader
  /\ TimersAtRest
  /\ LazyAtRest
  /\ InputsAtRest
  /\ FormAtRest
  /\ TrapAtRest
  /\ BootAtRest

SpecHeader == InitHeaderPage /\ [][NextHeader]_vars

\* ------------------------------------------- debounce and throttle wrappers

Wrappers ==
  {"Events.throttle", "Events.debounce", "Utils.debounce", "Utils.throttle"}

Waits == 1..MaxWait

Args == {"a", "b"}

\* the closure of the wrapper and the event loop's timeouts; invoked collects
\* the arguments func is called with during one step
Closure ==
  [timers |-> timers, timeout |-> timeout, inThrottle |-> wrapInThrottle,
   nextId |-> nextId, invoked |-> <<>>]

\* setTimeout(callback, wait): the handle it returns is c.nextId
setTimeoutIn(c, args) ==
  [c EXCEPT !.timers = @ \cup {[id |-> c.nextId, due |-> now + wait,
                               args |-> args]},
            !.nextId = @ + 1]

\* clearTimeout(handle); a handle that names no pending timeout is ignored
clearTimeoutIn(c, handle) ==
  [c EXCEPT !.timers = {t \in @ : t.id # handle}]

\* func(...args)
invoke(c, args) == [c EXCEPT !.invoked = Append(@, args)]

\* the function Events.throttle returns
eventsThrottleCall(c, args) ==
  LET cleared == clearTimeoutIn(c, c.timeout)
  IN [setTimeoutIn(cleared, args) EXCEPT !.timeout = cleared.nextId]

\* its timeout callback later
eventsThrottleLater(c, args) ==
  invoke(clearTimeoutIn(c, c.timeout), args)

\* the function Events.debounce returns when it keeps the earlier timeout
eventsDebounceCallKeeping(c, args, immediate) ==
  LET callNow == immediate /\ c.timeout = NoTimeout
      set == [setTimeoutIn(c, args) EXCEPT !.timeout = c.nextId]
  IN IF callNow THEN invoke(set, args) ELSE set

\* the function Events.debounce returns
eventsDebounceCall(c, args, immediate) ==
  LET callNow == immediate /\ c.timeout = NoTimeout
      cleared == clearTimeoutIn(c, c.timeout)
      set == [setTimeoutIn(cleared, args) EXCEPT !.timeout = cleared.nextId]
  IN IF callNow THEN invoke(set, args) ELSE set

\* its timeout callback later
eventsDebounceLater(c, args, immediate) ==
  LET cleared == [c EXCEPT !.timeout = NoTimeout]
  IN IF ~immediate THEN invoke(cleared, args) ELSE cleared

\* the function the vanilla Utils.debounce returns
utilsDebounceCall(c, args) ==
  LET cleared == clearTimeoutIn(c, c.timeout)
  IN [setTimeoutIn(cleared, args) EXCEPT !.timeout = cleared.nextId]

\* its timeout callback
utilsDebounceLater(c, args) == invoke(c, args)

\* the function Utils.throttle returns when it does not test inThrottle
utilsThrottleCallUnguarded(c, args) ==
  setTimeoutIn([invoke(c, args) EXCEPT !.inThrottle = TRUE], "")

\* the function the vanilla Utils.throttle returns; the handle of its
\* timeout is not kept
utilsThrottleCall(c, args) ==
  IF ~c.inThrottle
    THEN setTimeoutIn([invoke(c, args) EXCEPT !.inThrottle = TRUE], "")
    ELSE c

\* its timeout callback
utilsThrottleLater(c) == [c EXCEPT !.inThrottle = FALSE]

\* the calls func got in this step, stamped with the time
InvokedNow(c) == [k \in 1..Len(c.invoked) |-> [at |-> now, args |-> c.invoked[k]]]

CommitClosure(c) ==
  /\ timers' = c.timers
  /\ timeout' = c.timeout
  /\ wrapInThrottle' = c.inThrottle
  /\ nextId' = c.nextId

\* One wrapper, built by any of the four helpers with any wait, not called
\* yet.
InitWrap ==
  /\ wrapper \in Wrappers
  /\ wait \in Waits
  /\ now = 0
  /\ timers = {}
  /\ timeout = NoTimeout
  /\ wrapInThrottle = FALSE
  /\ nextId = 1
  /\ hist = NoHistory

\* A call of the wrapper with arguments args. A call less than wait after the
\* previous call continues the burst, any other call starts one. hist.late
\* records that some timeout ran after its due time.
WrapCall(args) ==
  /\ hist.calls < MaxCalls
  /\ LET c == CASE wrapper = "Events.throttle" -> eventsThrottleCall(Closure, args)
                 [] wrapper = "Events.debounce" ->
                        eventsDebounceCall(Closure, args, FALSE)
                 [] wrapper = "Utils.debounce" -> utilsDebounceCall(Closure, args)
                 [] wrapper = "Utils.throttle" -> utilsThrottleCall(Closure, args)
         inBurst == hist.calls > 0 /\ now - hist.lastCallAt < wait
     IN /\ CommitClosure(c)
        /\ hist' = [calls |-> hist.calls + 1,
                    lastCallAt |-> now,
                    lastCallArgs |-> args,
                    invoked |-> hist.invoked \o InvokedNow(c),
                    burstCalls |-> IF inBurst THEN hist.burstCalls + 1 ELSE 1,
                    burstInvoked |-> (IF inBurst THEN hist.burstInvoked ELSE 0)
                                       + Len(c.invoked),
                    burstStart |-> IF inBurst THEN hist.burstStart ELSE now,
                    late |-> hist.late]
  /\ last' = Stamp("call", args, 0)
  /\ UNCHANGED <<wvars, svars, hvars, lvars, fvars, gvars, pvars, bvars, wrapper, wait, now>>

\* A pending timeout runs its callback, at its due time or later.
WrapTimerFire(t) ==
  /\ t \in timers
  /\ now >= t.due
  /\ LET fired == [Closure EXCEPT !.timers = @ \ {t}]
         c == CASE wrapper = "Events.throttle" -> eventsThrottleLater(fired, t.args)
                [] wrapper = "Events.debounce" ->
                       eventsDebounceLater(fired, t.args, FALSE)
                [] wrapper = "Utils.debounce" -> utilsDebounceLater(fired, t.args)
                [] wrapper = "Utils.throttle" -> utilsThrottleLater(fired)
     IN /\ CommitClosure(c)
        /\ hist' = [hist EXCEPT !.invoked = @ \o InvokedNow(c),
                                !.burstInvoked = @ + Len(c.invoked),
                                !.late = @ \/ now > t.due]
  /\ last' = Stamp("timer", t.args, t.id)
  /\ UNCHANGED <<wvars, svars, hvars, lvars, fvars, gvars, pvars, bvars, wrapper, wait, now>>

\* the clock advances
WrapTick ==
  /\ now < MaxTime
  /\ now' = now + 1
  /\ last' = Stamp("tick", "", 0)
  /\ UNCHANGED <<wvars, svars, hvars, lvars, fvars, gvars, pvars, bvars, wrapper, wait, timers,
                 timeout, wrapInThrottle, nextId, hist>>

NextWrap ==
  \/ \E args \in Args : WrapCall(args)
  \/ \E t \in timers : WrapTimerFire(t)
  \/ WrapTick

\* Events belongs to the modular utilities, Utils to the vanilla script.
InitWrapPage ==
  /\ \E v \in Variants : WidgetsResting(v)
  /\ SpyAtRest
  /\ HeaderAtRest
  /\ LazyAtRest
  /\ InputsAtRest
  /\ FormAtRest
  /\ TrapAtRest
  /\ BootAtRest
  /\ InitWrap
  /\ (variant = "modular") <=> (wrapper \in {"Events.throttle", "Events.debounce"})

SpecWrap == InitWrapPage /\ [][NextWrap]_vars

\* --------------------------------------------------------------- LazyImages

\* the values a data-src attribute of the markup has
Sources == {"", "a.jpg"}

\* the images, the observer's targets and the count of src assignments
Lazy == [images |-> images, observed |-> observed, srcWrites |-> srcWrites]

\* loadImage of the modular class when it leaves the data-src attribute
loadImageKeepingDataSrc(l, i) ==
  LET src == l.images[i].dataSrc
  IN IF src # Absent /\ src # ""
       THEN [l EXCEPT !.images[i].src = src,
                      !.images[i].loaded = TRUE,
                      !.srcWrites[i] = @ + 1]
       ELSE l

\* LazyImages.loadImage of the modular class; dataset.src is undefined
\* without the attribute, and '' is as falsy
loadImage(l, i) ==
  LET src == l.images[i].dataSrc
  IN IF src # Absent /\ src # ""
       THEN [l EXCEPT !.images[i].src = src,
                      !.images[i].loaded = TRUE,
                      !.images[i].dataSrc = Absent,
                      !.srcWrites[i] = @ + 1]
       ELSE l

\* LazyImages.loadImage of the vanilla object
loadImageV(l, i) ==
  LET src == l.images[i].dataSrc
      copied == IF src # Absent /\ src # ""
                  THEN [l EXCEPT !.images[i].src = src,
                                 !.images[i].dataSrc = Absent,
                                 !.srcWrites[i] = @ + 1]
                  ELSE l
  IN [copied EXCEPT !.images[i].loaded = TRUE]

unobserve(l, i) == [l EXCEPT !.observed = @ \ {i}]

\* the observer callback of the modular class when it keeps observing
RECURSIVE observerCallbackNoUnobserve(_, _, _)
observerCallbackNoUnobserve(l, entries, k) ==
  IF k > Len(entries) THEN l
  ELSE observerCallbackNoUnobserve(
         IF entries[k].isIntersecting
           THEN loadImage(l, entries[k].target)
           ELSE l,
         entries, k + 1)

\* the observer callback of the modular class, from entry k on
RECURSIVE observerCallback(_, _, _)
observerCallback(l, entries, k) ==
  IF k > Len(entries) THEN l
  ELSE observerCallback(
         IF entries[k].isIntersecting
           THEN unobserve(loadImage(l, entries[k].target), entries[k].target)
           ELSE l,
         entries, k + 1)

\* the observer callback of the vanilla object, from entry k on
RECURSIVE observerCallbackV(_, _, _)
observerCallbackV(l, entries, k) ==
  IF k > Len(entries) THEN l
  ELSE observerCallbackV(
         IF entries[k].isIntersecting
           THEN unobserve(loadImageV(l, entries[k].target), entries[k].target)
           ELSE l,
         entries, k + 1)

\* images.forEach(img => this.loadImage(img)) over the images in sel, from
\* image i on
RECURSIVE loadEach(_, _, _)
loadEach(l, sel, i) ==
  IF i > NumImages THEN l
  ELSE loadEach(IF i \in sel THEN loadImage(l, i) ELSE l, sel, i + 1)

RECURSIVE loadEachV(_, _, _)
loadEachV(l, sel, i) ==
  IF i > NumImages THEN l
  ELSE loadEachV(IF i \in sel THEN loadImageV(l, i) ELSE l, sel, i + 1)

\* the constructor and init of the modular class; this.images is l.images
lazyInit(l) ==
  IF hasIO THEN [l EXCEPT !.observed = 1..NumImages]
           ELSE loadEach(l, 1..NumImages, 1)

\* LazyImages.init of the vanilla object; the constant images is l.images
lazyInitV(l) ==
  IF hasNativeLoading THEN l
  ELSE IF hasIO THEN [l EXCEPT !.observed = 1..NumImages]
  ELSE loadEachV(l, 1..NumImages, 1)

\* the data-src values of the images a variant's selector matches:
\* img[data-src] for the modular class, img[loading="lazy"] for the vanilla
\* object
SelectedSources(v) ==
  IF v = "modular" THEN Sources ELSE Sources \cup {Absent}

\* Any markup in any environment, after the loader's init.
InitLazy ==
  /\ hasIO \in BOOLEAN
  /\ hasNativeLoading \in BOOLEAN
  /\ deferred \in [1..NumImages -> SelectedSources(variant)]
  /\ LET markup == [images |-> [i \in 1..NumImages |->
                                  [src |-> "placeholder",
                                   dataSrc |-> deferred[i],
                                   loaded |-> FALSE]],
                     observed |-> {},
                     srcWrites |-> [i \in 1..NumImages |-> 0]]
         l == IF variant = "modular" THEN lazyInit(markup)
                                     ELSE lazyInitV(markup)
     IN /\ images = l.images
        /\ observed = l.observed
        /\ srcWrites = l.srcWrites

CommitLazy(l) ==
  /\ images' = l.images
  /\ observed' = l.observed
  /\ srcWrites' = l.srcWrites
  /\ UNCHANGED <<wvars, svars, hvars, tvars, fvars, gvars, pvars, bvars, hasIO, hasNativeLoading,
                 deferred>>

\* the entry lists the observer can deliver: its targets, in any order, a
\* target possibly more than once
EntryLists ==
  UNION {[1..n -> [target : observed, isIntersecting : BOOLEAN]] :
           n \in 1..MaxEntries}

\* the positions of the entries with isIntersecting true
Intersecting(entries) == {k \in 1..Len(entries) : entries[k].isIntersecting}

\* The observer delivers entries to its callback; the history keeps the
\* targets the entries name (seen), those of the intersecting entries (hit)
\* and the number of intersecting entries (hits).
LazyIntersect(entries) ==
  /\ observed # {}
  /\ CommitLazy(IF variant = "modular" THEN observerCallback(Lazy, entries, 1)
                                        ELSE observerCallbackV(Lazy, entries, 1))
  /\ last' = [op |-> "intersect", arg |-> "", idx |-> Len(entries),
              wasOpen |-> nav.isOpen, outside |-> FALSE,
              seen |-> {entries[k].target : k \in 1..Len(entries)},
              hit |-> {entries[k].target : k \in Intersecting(entries)},
              hits |-> Cardinality(Intersecting(entries))]

\* A direct call of loadImage(img).
CallLoadImage(i) ==
  /\ CommitLazy(IF variant = "modular" THEN loadImage(Lazy, i)
                                        ELSE loadImageV(Lazy, i))
  /\ last' = Stamp("loadImage",
                   IF srcWrites[i] > 0 THEN "loaded" ELSE "pending", i)

NextLazy ==
  \/ \E entries \in EntryLists : LazyIntersect(entries)
  \/ \E i \in 1..NumImages : CallLoadImage(i)

InitLazyPage ==
  /\ \E v \in Variants : WidgetsResting(v)
  /\ SpyAtRest
  /\ HeaderAtRest
  /\ TimersAtRest
  /\ InputsAtRest
  /\ FormAtRest
  /\ TrapAtRest
  /\ BootAtRest
  /\ InitLazy

SpecLazy == InitLazyPage /\ [][NextLazy]_vars

\* --------------------------------------------- email and phone validators

Whitespace == {" "}
Digits == {"1", "5"}

\* the characters \d, \s, -, ( and ) of the phone patterns' class
PhoneClass == Digits \cup Whitespace \cup {"-", "(", ")"}

EmailChars == {"a", "@", ".", " "}
PhoneChars == {"1", "-", "(", ")", "+", " ", "x"}

\* the strings over alphabet of length at most n
StringsUpTo(alphabet, n) == UNION {[1..k -> alphabet] : k \in 0..n}

\* n times the character ch
Run(ch, n) == [k \in 1..n |-> ch]

EmailInputs == StringsUpTo(EmailChars, MaxLen)

\* a short arbitrary prefix, a run of digits, at most one more character
PhoneInputs ==
  {p \o Run("1", n) \o e :
     p \in StringsUpTo(PhoneChars, MaxPrefix), n \in 0..MaxRun,
     e \in StringsUpTo(PhoneChars, 1)}

\* every character of str from position a to position b is in the class [^\s@]
NoSpaceNoAt(str, a, b) ==
  \A k \in a..b : str[k] \notin Whitespace /\ str[k] # "@"

\* the pattern without the dot and the last run: /^[^\s@]+@[^\s@]+$/
validateEmailNoDot(email) ==
  \E i \in 1..Len(email) :
     /\ email[i] = "@"
     /\ i > 1 /\ NoSpaceNoAt(email, 1, i - 1)
     /\ Len(email) > i /\ NoSpaceNoAt(email, i + 1, Len(email))

\* FormValidator.validateEmail: /^[^\s@]+@[^\s@]+\.[^\s@]+$/ matches with the
\* '@' at position i and the pattern's dot at position j
validateEmail(email) ==
  \E i, j \in 1..Len(email) :
     /\ email[i] = "@"
     /\ email[j] = "."
     /\ i > 1 /\ NoSpaceNoAt(email, 1, i - 1)
     /\ j > i + 1 /\ NoSpaceNoAt(email, i + 1, j - 1)
     /\ Len(email) > j /\ NoSpaceNoAt(email, j + 1, Len(email))

\* Form.validateEmail of the utilities: the same pattern
formValidateEmail(email) ==
  \E i, j \in 1..Len(email) :
     /\ email[i] = "@"
     /\ email[j] = "."
     /\ i > 1 /\ NoSpaceNoAt(email, 1, i - 1)
     /\ j > i + 1 /\ NoSpaceNoAt(email, i + 1, j - 1)
     /\ Len(email) > j /\ NoSpaceNoAt(email, j + 1, Len(email))

\* str.replace(/\s/g, '')
RECURSIVE removeWhitespace(_)
removeWhitespace(str) ==
  IF str = <<>> THEN <<>>
  ELSE IF Head(str) \in Whitespace THEN removeWhitespace(Tail(str))
  ELSE <<Head(str)>> \o removeWhitespace(Tail(str))

\* /^[\+]?[(]?[\d\s\-\(\)]{min,}$/ matches str: the optional '+' takes plus
\* characters, the optional '(' takes paren characters, the class the rest
phonePattern(str, min) ==
  \E plus, paren \in {0, 1} :
     /\ plus + paren <= Len(str)
     /\ plus = 1 => str[1] = "+"
     /\ paren = 1 => str[plus + 1] = "("
     /\ Len(str) - plus - paren >= min
     /\ \A k \in (plus + paren + 1)..Len(str) : str[k] \in PhoneClass

\* validatePhone that tests the string with its whitespace
validatePhoneKeepingWhitespace(phone) == phonePattern(phone, PHONE_MIN)

\* FormValidator.validatePhone
validatePhone(phone) == phonePattern(removeWhitespace(phone), PHONE_MIN)

\* Form.validatePhone of the utilities
formValidatePhone(phone) ==
  phonePattern(removeWhitespace(phone), FORM_PHONE_MIN)

\* Any string, not validated yet.
InitInputs ==
  /\ input \in EmailInputs \cup PhoneInputs
  /\ verdict = NoVerdict

ValidateEmail ==
  /\ verdict' = [fn |-> "email", component |-> validateEmail(input),
                 form |-> formValidateEmail(input)]
  /\ last' = Stamp("validateEmail", "", 0)
  /\ UNCHANGED <<wvars, svars, hvars, tvars, lvars, gvars, pvars, bvars, input>>

ValidatePhone ==
  /\ verdict' = [fn |-> "phone", component |-> validatePhone(input),
                 form |-> formValidatePhone(input)]
  /\ last' = Stamp("validatePhone", "", 0)
  /\ UNCHANGED <<wvars, svars, hvars, tvars, lvars, gvars, pvars, bvars, input>>

NextValidators ==
  \/ ValidateEmail
  \/ ValidatePhone

InitValidatorsPage ==
  /\ WidgetsResting("modular")
  /\ SpyAtRest
  /\ HeaderAtRest
  /\ TimersAtRest
  /\ LazyAtRest
  /\ FormAtRest
  /\ TrapAtRest
  /\ BootAtRest
  /\ InitInputs

SpecValidators == InitValidatorsPage /\ [][NextValidators]_vars

\* ------------------------------------------------- FormValidator (class)
\* Every field has an id of its own, which is a plain identifier: the
\* selector #<id>-error finds the error elements of that field and no other.

\* String.prototype.trim
RECURSIVE trimStart(_)
trimStart(str) ==
  IF str # <<>> /\ Head(str) \in Whitespace THEN trimStart(Tail(str)) ELSE str

RECURSIVE trimEnd(_)
trimEnd(str) ==
  IF str # <<>> /\ str[Len(str)] \in Whitespace
  THEN trimEnd(SubSeq(str, 1, Len(str) - 1))
  ELSE str

trim(str) == trimEnd(trimStart(str))

\* a number as parseInt returns it: NaN, or an integer
NaN == [nan |-> TRUE, value |-> 0]
Number(n) == [nan |-> FALSE, value |-> n]
isNaN(x) == x.nan

DigitValue(ch) == IF ch = "1" THEN 1 ELSE 5

\* the value of the longest run of digits str starts with, from acc
RECURSIVE parseDigits(_, _)
parseDigits(str, acc) ==
  IF str # <<>> /\ Head(str) \in Digits
  THEN parseDigits(Tail(str), 10 * acc + DigitValue(Head(str)))
  ELSE acc

\* parseInt(value, 10): leading whitespace, a sign, then digits; NaN without
\* a digit there
parseInt(str) ==
  LET s == trimStart(str)
      signed == s # <<>> /\ Head(s) \in {"+", "-"}
      body == IF signed THEN Tail(s) ELSE s
  IN  IF body = <<>> \/ Head(body) \notin Digits THEN NaN
      ELSE IF signed /\ Head(s) = "-" THEN Number(0 - parseDigits(body, 0))
      ELSE Number(parseDigits(body, 0))

MSG_REQUIRED == "Le champ est requis."
MSG_EMAIL == "Veuillez saisir une adresse email valide."
MSG_PHONE == "Veuillez saisir un numero de telephone valide."
MSG_AGE == "Veuillez saisir un age valide (0-10 ans)."

customValidation(field, value) ==
  LET age == parseInt(value)
  IN  IF field.validate = "age"
         /\ (isNaN(age) \/ age.value < 0 \/ age.value > 10)
      THEN [isValid |-> FALSE, message |-> MSG_AGE]
      ELSE [isValid |-> TRUE, message |-> ""]

\* validateField running the custom rule whatever came before
checkFieldCustomAlways(field) ==
  LET value == trim(field.value)
      first ==
        IF field.required /\ value = <<>>
        THEN [isValid |-> FALSE, message |-> MSG_REQUIRED,
              evaluated |-> <<"required">>]
        ELSE IF field.type = "email" /\ value # <<>> /\ ~validateEmail(value)
        THEN [isValid |-> FALSE, message |-> MSG_EMAIL,
              evaluated |-> <<"required", "email">>]
        ELSE IF field.type = "tel" /\ value # <<>> /\ ~validatePhone(value)
        THEN [isValid |-> FALSE, message |-> MSG_PHONE,
              evaluated |-> <<"required", "tel">>]
        ELSE [isValid |-> TRUE, message |-> "",
              evaluated |-> IF field.type \in {"email", "tel"} /\ value # <<>>
                            THEN <<"required", field.type>>
                            ELSE <<"required">>]
  IN  IF field.validate # ""
      THEN LET result == customValidation(field, value)
           IN  [isValid |-> result.isValid, message |-> result.message,
                evaluated |-> Append(first.evaluated, "custom")]
      ELSE first

\* The checks of validateField on a field: its verdict, its message and the
\* rules whose test ran, in order.
checkField(field) ==
  LET value == trim(field.value)
      first ==
        IF field.required /\ value = <<>>
        THEN [isValid |-> FALSE, message |-> MSG_REQUIRED,
              evaluated |-> <<"required">>]
        ELSE IF field.type = "email" /\ value # <<>> /\ ~validateEmail(value)
        THEN [isValid |-> FALSE, message |-> MSG_EMAIL,
              evaluated |-> <<"required", "email">>]
        ELSE IF field.type = "tel" /\ value # <<>> /\ ~validatePhone(value)
        THEN [isValid |-> FALSE, message |-> MSG_PHONE,
              evaluated |-> <<"required", "tel">>]
        ELSE [isValid |-> TRUE, message |-> "",
              evaluated |-> IF field.type \in {"email", "tel"} /\ value # <<>>
                            THEN <<"required", field.type>>
                            ELSE <<"required">>]
  IN  IF first.isValid /\ field.validate # ""
      THEN LET result == customValidation(field, value)
           IN  [isValid |-> result.isValid, message |-> result.message,
                evaluated |-> Append(first.evaluated, "custom")]
      ELSE first

\* the form as a record, so that the methods are functions on it
Form ==
  [fields |-> fields, errors |-> errors, focus |-> formFocus,
   btn |-> submitBtn, runs |-> runs, banners |-> banners,
   regions |-> regions, pending |-> pending,
   log |-> <<>>]   \* the fields the running handler has validated, in order

\* the handle setTimeout returns: the least one no pending timeout holds
FreshHandle(g) ==
  CHOOSE h \in 1..(Cardinality(g.pending) + 1) :
    /\ \A t \in g.pending : t.id # h
    /\ \A k \in 1..(h - 1) : \E t \in g.pending : t.id = k

\* setTimeout(callback, delay)
setTimeoutOf(g, callback, delay) ==
  [g EXCEPT !.pending = @ \cup {[id |-> FreshHandle(g), due |-> now + delay,
                                 args |-> callback]}]

\* clearTimeout(handle); a handle that names no pending timeout is ignored
clearTimeoutOf(g, handle) ==
  [g EXCEPT !.pending = {t \in @ : t.id # handle}]

\* A11y.announce with no timeout to remove the announcer
announceTimedNoRemoval(g, message, priority) ==
  [g EXCEPT !.regions = @ \cup {[id |-> FreshHandle(g), text |-> message,
                                 priority |-> priority, at |-> now]}]

\* A11y.announce: the announcer is appended to the body, its removal is set
\* for ANNOUNCE_DELAY later; at (history) is the time of the call
announceTimed(g, message, priority) ==
  [setTimeoutOf(g, [kind |-> "removeAnnouncer", target |-> 0], ANNOUNCE_DELAY)
     EXCEPT !.regions = @ \cup {[id |-> FreshHandle(g), text |-> message,
                                 priority |-> priority, at |-> now]}]

\* the timeout callback of A11y.announce for the announcer h
removeAnnouncer(g, h) == [g EXCEPT !.regions = {r \in @ : r.id # h}]

\* clearFieldError leaving the error element in place
clearFieldErrorKeepingElement(g, i) ==
  [g EXCEPT !.fields[i].errorClass = FALSE,
            !.fields[i].ariaInvalid = Absent,
            !.fields[i].describedby = 0]

clearFieldError(g, i) ==
  [g EXCEPT !.fields[i].errorClass = FALSE,
            !.fields[i].ariaInvalid = Absent,
            !.fields[i].describedby = 0,
            !.errors[i] = IF @ = <<>> THEN @ ELSE Tail(@)]

\* showFieldError without the clearFieldError it starts with
showFieldErrorKeeping(g, i, message) ==
  [g EXCEPT !.fields[i].errorClass = TRUE,
            !.fields[i].ariaInvalid = "true",
            !.fields[i].describedby = i,
            !.errors[i] = Append(@, message)]

\* aria-describedby holds the id <field id>-error, kept as the field's index
showFieldError(g, i, message) ==
  LET c == clearFieldError(g, i)
  IN  [c EXCEPT !.fields[i].errorClass = TRUE,
                !.fields[i].ariaInvalid = "true",
                !.fields[i].describedby = i,
                !.errors[i] = Append(@, message)]

validateField(g, i) ==
  LET r == checkField(g.fields[i])
      logged == [g EXCEPT !.log = Append(@, [field |-> i,
                                             isValid |-> r.isValid,
                                             message |-> r.message,
                                             hadError |-> g.errors[i] # <<>>])]
  IN  IF r.isValid THEN clearFieldError(logged, i)
      ELSE showFieldError(logged, i, r.message)

\* the function Events.debounce(() => this.clearFieldError(field), 300)
\* returned for field i, called by an input event
inputHandler(g, i) ==
  LET cleared == clearTimeoutOf(g, g.fields[i].timeout)
  IN  [setTimeoutOf(cleared, [kind |-> "later", target |-> i], INPUT_DEBOUNCE)
         EXCEPT !.fields[i].timeout = FreshHandle(cleared)]

\* its timeout callback later
inputLater(g, i) ==
  clearFieldError([g EXCEPT !.fields[i].timeout = NoTimeout], i)

\* the loop of handleSubmit leaving at the first field that fails
RECURSIVE validateFromUntilFailure(_, _)
validateFromUntilFailure(g, i) ==
  IF i > Len(g.fields) THEN g
  ELSE IF ~checkField(g.fields[i]).isValid THEN validateField(g, i)
  ELSE validateFromUntilFailure(validateField(g, i), i + 1)

\* this.fields.forEach(field => this.validateField(field)), from field i on
RECURSIVE validateFrom(_, _)
validateFrom(g, i) ==
  IF i > Len(g.fields) THEN g ELSE validateFrom(validateField(g, i), i + 1)

\* the first marked field in the order of this.fields
firstErrorOfFields(g) ==
  LET marked == {i \in DOMAIN g.fields : g.fields[i].errorClass}
  IN  IF marked = {} THEN 0
      ELSE CHOOSE i \in marked : \A j \in marked : i <= j

\* DOM.query('.form-input--error', this.form): the first in document order
firstError(g) ==
  LET marked == {i \in DOMAIN g.fields : g.fields[i].errorClass}
  IN  IF marked = {} THEN 0
      ELSE CHOOSE i \in marked :
             \A j \in marked : g.fields[i].pos <= g.fields[j].pos

IN_PROGRESS == "Envoi en cours..."
MSG_CORRECT == "Veuillez corriger les erreurs dans le formulaire."

\* submitForm up to its await; alone and at (history): no other run has
\* been in flight together with this one, the time of the call
submitForm(g) ==
  LET originalText == IF g.btn.present THEN g.btn.text ELSE ""
      started == IF g.btn.present
                 THEN [g EXCEPT !.btn.disabled = TRUE, !.btn.text = IN_PROGRESS]
                 ELSE g
  IN  [setTimeoutOf(started, [kind |-> "resolve", target |-> 0],
                    SUBMISSION_LATENCY)
         EXCEPT !.runs = {[r EXCEPT !.alone = FALSE] : r \in @}
                         \cup {[id |-> FreshHandle(started),
                                originalText |-> originalText,
                                alone |-> g.runs = {}, at |-> now]}]

\* showSuccess and showError with no timeout to remove the alert
showBannerForever(g, kind) ==
  [g EXCEPT !.banners = @ \cup {[id |-> FreshHandle(g), kind |-> kind,
                                 at |-> now]}]

\* showSuccess and showError: the alert goes in front of the form and its
\* removal is set for BANNER_DELAY later (the scrolling is not kept); at
\* (history) is the time of the insertion
showBanner(g, kind) ==
  [setTimeoutOf(g, [kind |-> "removeBanner", target |-> 0], BANNER_DELAY)
     EXCEPT !.banners = @ \cup {[id |-> FreshHandle(g), kind |-> kind,
                                 at |-> now]}]

\* the timeout callback of a banner: if (message.parentNode) removeChild
removeBanner(g, h) == [g EXCEPT !.banners = {b \in @ : b.id # h}]

\* this.form.reset(): every value back to the markup's, which is blank
formReset(g) ==
  [g EXCEPT !.fields = [i \in DOMAIN @ |-> [@[i] EXCEPT !.value = <<>>]]]

\* the run with the handle h
RunOf(g, h) == CHOOSE r \in g.runs : r.id = h

\* submitForm from its await on with the finally block left out when the
\* try block threw
submitFormResumeNoFinally(g, h, throws) ==
  LET settled == [g EXCEPT !.runs = @ \ {RunOf(g, h)}]
      done == IF throws THEN showBanner(settled, "error")
              ELSE formReset(showBanner(settled, "success"))
  IN  IF done.btn.present /\ ~throws
      THEN [done EXCEPT !.btn.disabled = FALSE,
                        !.btn.text = RunOf(g, h).originalText]
      ELSE done

\* submitForm from its await on, for the run with the handle h; throws: the
\* try block threw before it rendered anything
submitFormResume(g, h, throws) ==
  LET settled == [g EXCEPT !.runs = @ \ {RunOf(g, h)}]
      done == IF throws THEN showBanner(settled, "error")
              ELSE formReset(showBanner(settled, "success"))
  IN  IF done.btn.present
      THEN [done EXCEPT !.btn.disabled = FALSE,
                        !.btn.text = RunOf(g, h).originalText]
      ELSE done

\* handleSubmit after e.preventDefault()
handleSubmit(g) ==
  LET validated == validateFrom(g, 1)
      isFormValid == \A i \in DOMAIN g.fields : checkField(g.fields[i]).isValid
  IN  IF isFormValid THEN submitForm(validated)
      ELSE IF firstError(validated) # 0
      THEN announceTimed([validated EXCEPT !.focus = firstError(validated)],
                         MSG_CORRECT, "assertive")
      ELSE validated

\* the callback of the timeout t
timeoutCallback(g, t, throws) ==
  LET fired == [g EXCEPT !.pending = @ \ {t}]
  IN  CASE t.args.kind = "later" -> inputLater(fired, t.args.target)
        [] t.args.kind = "removeAnnouncer" -> removeAnnouncer(fired, t.id)
        [] t.args.kind = "removeBanner" -> removeBanner(fired, t.id)
        [] t.args.kind = "resolve" -> submitFormResume(fired, t.id, throws)

CommitForm(g, op, arg, idx, out) ==
  /\ Cardinality(g.pending) <= MaxPending
  /\ fields' = g.fields
  /\ errors' = g.errors
  /\ outcome' = out
  /\ formFocus' = g.focus
  /\ submitBtn' = g.btn
  /\ runs' = g.runs
  /\ banners' = g.banners
  /\ regions' = g.regions
  /\ pending' = g.pending
  /\ last' = Stamp(op, arg, idx)
  /\ UNCHANGED <<wvars, svars, hvars, tvars, lvars, fvars, pvars, bvars>>

FieldTypes == {"text", "email", "tel"}
ValidateRules == {"", "age"}

\* what a visitor may leave in a field
FieldValues ==
  {<<>>, <<" ">>, <<"a">>, <<"a", "@", "a">>,
   <<" ", "a", "@", "a", ".", "a", " ">>,
   <<"5">>, <<"1", "1">>, <<"-", "1">>, <<"5", "a">>,
   Run("1", PHONE_MIN - 1), Run("1", PHONE_MIN)}

\* a field as loaded, at position pos of the form's controls
UntouchedField(required, type, validate, pos) ==
  [required |-> required, type |-> type, validate |-> validate, pos |-> pos,
   value |-> <<>>, errorClass |-> FALSE, ariaInvalid |-> Absent,
   describedby |-> 0, timeout |-> NoTimeout,
   inputSince |-> FALSE]   \* an input event has come since the last error
                           \* was rendered for the field (history)

NoButton == [present |-> FALSE, disabled |-> FALSE, text |-> ""]

\* init collects input[required], input[type="email"], input[type="tel"],
\* textarea[required] and select[required]
Selected(required, type) == required \/ type \in {"email", "tel"}

\* A form of one field of any selected kind, as loaded.
InitField ==
  /\ \E required \in BOOLEAN, type \in FieldTypes, validate \in ValidateRules :
       /\ Selected(required, type)
       /\ fields = <<UntouchedField(required, type, validate, 1)>>
  /\ errors = <<<<>>>>
  /\ outcome = NoOutcome
  /\ formFocus = 0
  /\ submitBtn = NoButton
  /\ runs = {}
  /\ banners = {}
  /\ regions = {}
  /\ pending = {}

\* the history mark of the fields the handler has rendered an error for
Rendered(g) ==
  [g EXCEPT !.fields = [i \in DOMAIN @ |->
     IF \E k \in DOMAIN g.log : g.log[k].field = i /\ ~g.log[k].isValid
       THEN [@[i] EXCEPT !.inputSince = FALSE]
       ELSE @[i]]]

\* input on a field: the visitor has changed its value, the debounced
\* clearing is set
FieldInput(i, v) ==
  /\ i \in DOMAIN fields
  /\ fields[i].value # v
  /\ CommitForm(inputHandler([Form EXCEPT !.fields[i].value = v,
                                          !.fields[i].inputSince = TRUE], i),
                "input", "", i, NoOutcome)

\* blur on a field: validateField
FieldBlur(i) ==
  /\ i \in DOMAIN fields
  /\ LET r == checkField(fields[i])
         left == [Form EXCEPT !.focus = IF @ = i THEN 0 ELSE @]
         g == Rendered(validateField(left, i))
     IN  CommitForm(g, "blur", "", i,
                    [NoOutcome EXCEPT !.isValid = r.isValid,
                                      !.message = r.message,
                                      !.evaluated = r.evaluated,
                                      !.validated = g.log])

\* A timeout of the form's code runs, at some time after it was set.
FormTimeout(t, throws) ==
  /\ t \in pending
  /\ throws => t.args.kind = "resolve"
  /\ CommitForm(timeoutCallback(Form, t, throws), t.args.kind,
                IF throws THEN "throws" ELSE "", t.id,
                [NoOutcome EXCEPT !.settled = {r \in runs : r.id = t.id},
                                  !.removed = {b \in banners : b.id = t.id}])

NextField ==
  \/ \E v \in FieldValues : FieldInput(1, v)
  \/ FieldBlur(1)
  \/ \E t \in pending : FormTimeout(t, FALSE)

InitFieldPage ==
  /\ WidgetsResting("modular")
  /\ SpyAtRest
  /\ HeaderAtRest
  /\ TimersAtRest
  /\ LazyAtRest
  /\ InputsAtRest
  /\ TrapAtRest
  /\ BootAtRest
  /\ InitField

SpecField == InitFieldPage /\ [][NextField]_vars

\* the kinds of field of the form under study: an optional email input and
\* a required textarea
FormKinds ==
  {[required |-> FALSE, type |-> "email"],
   [required |-> TRUE, type |-> "textarea"]}

FormValues == {<<>>, <<"a">>, <<"a", "@", "a", ".", "a">>}

\* this.fields = [...inputs, ...textareas, ...selects]
FieldGroup(type) == IF type = "textarea" THEN 2 ELSE 1

\* fields in the order of this.fields, pos their order in the document: the
\* inputs come first and each group keeps the document's order
FieldsAsCollected(kinds, pos) ==
  /\ \A i, j \in 1..NumFields : i # j => pos[i] # pos[j]
  /\ \A i, j \in 1..NumFields :
       i < j => /\ FieldGroup(kinds[i].type) <= FieldGroup(kinds[j].type)
                /\ FieldGroup(kinds[i].type) = FieldGroup(kinds[j].type)
                     => pos[i] < pos[j]

SUBMIT_LABEL == "Envoyer"

\* A form of NumFields fields and a submit button, as loaded.
InitForm ==
  /\ \E kinds \in [1..NumFields -> FormKinds],
        pos \in [1..NumFields -> 1..NumFields] :
       /\ FieldsAsCollected(kinds, pos)
       /\ fields = [i \in 1..NumFields |->
                      UntouchedField(kinds[i].required, kinds[i].type, "",
                                     pos[i])]
  /\ errors = [i \in 1..NumFields |-> <<>>]
  /\ outcome = NoOutcome
  /\ formFocus = 0
  /\ submitBtn = [present |-> TRUE, disabled |-> FALSE, text |-> SUBMIT_LABEL]
  /\ runs = {}
  /\ banners = {}
  /\ regions = {}
  /\ pending = {}

\* submit on the form: handleSubmit
FormSubmit ==
  LET g == Rendered(handleSubmit(Form))
  IN  CommitForm(g, "submit", "", 0,
                 [NoOutcome EXCEPT !.isValid = (g.runs # runs),
                                   !.validated = g.log,
                                   !.prevented = TRUE,
                                   !.submitted = (g.runs # runs),
                                   !.announced = g.regions \ regions])

NextForm ==
  \/ \E i \in 1..NumFields, v \in FormValues : FieldInput(i, v)
  \/ \E i \in 1..NumFields : FieldBlur(i)
  \/ FormSubmit
  \/ \E t \in pending, throws \in BOOLEAN : FormTimeout(t, throws)

InitFormPage ==
  /\ WidgetsResting("modular")
  /\ SpyAtRest
  /\ HeaderAtRest
  /\ TimersAtRest
  /\ LazyAtRest
  /\ InputsAtRest
  /\ TrapAtRest
  /\ BootAtRest
  /\ InitForm

SpecForm == InitFormPage /\ [][NextForm]_vars


MinOf(S) == CHOOSE x \in S : \A y \in S : x <= y
MaxOf(S) == CHOOSE x \in S : \A y \in S : x >= y

\* ------------------------------------- the form's timeouts over the clock
\* The clock counts milliseconds and the event loop is idle: a timeout runs
\* when it falls due, before the clock moves on.

\* A form of one required textarea, blank or filled, and a submit button.
InitTimedForm ==
  /\ \E v \in {<<>>, <<"a">>} :
       fields = <<[UntouchedField(TRUE, "textarea", "", 1) EXCEPT !.value = v]>>
  /\ errors = <<<<>>>>
  /\ outcome = NoOutcome
  /\ formFocus = 0
  /\ submitBtn = [present |-> TRUE, disabled |-> FALSE, text |-> SUBMIT_LABEL]
  /\ runs = {}
  /\ banners = {}
  /\ regions = {}
  /\ pending = {}

Due == {t \in pending : t.due <= now}

\* submit on the form, while the clock is within the horizon
TimedSubmit ==
  /\ now < MaxSeconds * STEP
  /\ Due = {}
  /\ FormSubmit

\* The timeout t runs, at its due time.
TimedTimeout(t, throws) ==
  /\ t \in Due
  /\ FormTimeout(t, throws)

\* Something other than the form's code takes a banner out of the document.
BannerDetach(b) ==
  /\ b \in banners
  /\ Due = {}
  /\ CommitForm([Form EXCEPT !.banners = @ \ {b}], "detach", "", b.id,
                NoOutcome)

\* Time passes, up to the next due time.
TimedTick ==
  /\ Due = {}
  /\ now < MaxSeconds * STEP \/ pending # {}
  /\ now' = MinOf({now + STEP} \cup {t.due : t \in pending})
  /\ last' = Stamp("tick", "", 0)
  /\ UNCHANGED <<wvars, svars, hvars, lvars, fvars, gvars, pvars, bvars, wrapper, wait,
                 timers, timeout, wrapInThrottle, nextId, hist>>

NextTimed ==
  \/ TimedSubmit
  \/ \E t \in pending, throws \in BOOLEAN : TimedTimeout(t, throws)
  \/ \E b \in banners : BannerDetach(b)
  \/ TimedTick

InitTimedPage ==
  /\ WidgetsResting("modular")
  /\ SpyAtRest
  /\ HeaderAtRest
  /\ TimersAtRest
  /\ LazyAtRest
  /\ InputsAtRest
  /\ TrapAtRest
  /\ BootAtRest
  /\ InitTimedForm

SpecTimed == InitTimedPage /\ [][NextTimed]_vars

\* The event loop runs a due timeout and the clock does not stop.
SpecTimedFair ==
  /\ SpecTimed
  /\ WF_vars(TimedTick)
  /\ WF_vars(\E t \in pending, throws \in BOOLEAN : TimedTimeout(t, throws))

\* ------------------------------------------------------- A11y.focusTrap
\* The container's focusableElements are numbered 1..focusable in document
\* order and every one of them can take the focus; activeElement 0 is an
\* element outside the list. The container is all there is to tab through.

TrapKeys == {"Tab", "Enter", "a"}

\* addEventListener registering the listener once more on every call
addEventListenerStacking(listeners) == listeners + 1

\* container.addEventListener('keydown', trapFocus): a listener that is
\* registered already is not registered again
addEventListener(listeners) == IF listeners = 0 THEN 1 ELSE listeners

\* container.removeEventListener('keydown', trapFocus)
removeEventListener(listeners) == IF listeners = 0 THEN 0 ELSE listeners - 1

\* trapFocus(e) with the focus on from: where the focus is afterwards and
\* whether e.preventDefault() was called
trapFocus(key, shiftKey, from) ==
  IF key = "Tab" /\ shiftKey /\ focusable > 0 /\ from = 1
  THEN [focus |-> focusable, prevented |-> TRUE]
  ELSE IF key = "Tab" /\ ~shiftKey /\ focusable > 0 /\ from = focusable
  THEN [focus |-> 1, prevented |-> TRUE]
  ELSE [focus |-> from, prevented |-> FALSE]

\* the browser's default action for the key
defaultAction(key, shiftKey, from) ==
  IF key # "Tab" THEN from
  ELSE IF shiftKey THEN (IF from = 0 THEN focusable ELSE from - 1)
  ELSE IF from = focusable THEN 0 ELSE from + 1

StampTrap(op, key, shiftKey, prevented) ==
  [op |-> op, arg |-> key, idx |-> activeElement, wasOpen |-> FALSE,
   outside |-> FALSE, shiftKey |-> shiftKey, prevented |-> prevented,
   listening |-> trapListeners > 0]

\* A container with 0..NumFocusable focusable elements; focusTrap(container)
\* has returned and nothing has been activated.
InitTrap ==
  /\ focusable \in 0..NumFocusable
  /\ activeElement = 0
  /\ trapListeners = 0
  /\ activations = 0
  /\ destroyed = FALSE

\* activate()
TrapActivate ==
  /\ activations < MaxActivations
  /\ trapListeners' = addEventListener(trapListeners)
  /\ activeElement' = IF focusable > 0 THEN 1 ELSE activeElement
  /\ activations' = activations + 1
  /\ last' = StampTrap("activate", "", FALSE, FALSE)
  /\ UNCHANGED <<wvars, svars, hvars, tvars, lvars, fvars, gvars, bvars, focusable,
                 destroyed>>

\* deactivate()
TrapDeactivate ==
  /\ trapListeners' = removeEventListener(trapListeners)
  /\ last' = StampTrap("deactivate", "", FALSE, FALSE)
  /\ UNCHANGED <<wvars, svars, hvars, tvars, lvars, fvars, gvars, bvars, focusable,
                 activeElement, activations, destroyed>>

\* keydown in the container: every registered trapFocus runs, then the
\* default action unless one of them cancelled it
TrapKeydown(key, shiftKey) ==
  /\ LET handled == IF trapListeners > 0
                    THEN trapFocus(key, shiftKey, activeElement)
                    ELSE [focus |-> activeElement, prevented |-> FALSE]
     IN  /\ activeElement' = IF handled.prevented THEN handled.focus
                             ELSE defaultAction(key, shiftKey, handled.focus)
         /\ last' = StampTrap("keydown", key, shiftKey, handled.prevented)
  /\ UNCHANGED <<wvars, svars, hvars, tvars, lvars, fvars, gvars, bvars, focusable,
                 trapListeners, activations, destroyed>>

\* The visitor puts the focus somewhere with the pointer.
TrapPointerFocus(i) ==
  /\ i \in 0..focusable
  /\ i # activeElement
  /\ activeElement' = i
  /\ last' = StampTrap("focus", "", FALSE, FALSE)
  /\ UNCHANGED <<wvars, svars, hvars, tvars, lvars, fvars, gvars, bvars, focusable,
                 trapListeners, activations, destroyed>>

NextTrap ==
  \/ TrapActivate
  \/ TrapDeactivate
  \/ \E key \in TrapKeys, shiftKey \in BOOLEAN : TrapKeydown(key, shiftKey)
  \/ \E i \in 0..NumFocusable : TrapPointerFocus(i)

InitTrapPage ==
  /\ WidgetsResting("modular")
  /\ SpyAtRest
  /\ HeaderAtRest
  /\ TimersAtRest
  /\ LazyAtRest
  /\ InputsAtRest
  /\ FormAtRest
  /\ BootAtRest
  /\ InitTrap

SpecTrap == InitTrapPage /\ [][NextTrap]_vars

\* --------------------------------------------------- ScrollSpy.destroy
\* The scroll spy with its teardown: destroy() runs the disposers Events.on
\* returned, which remove the scroll listener; the timeout the throttled
\* listener has set is left as it is.

\* a scroll event while the scroll listener is registered
SpyScroll(y) ==
  /\ ~destroyed
  /\ Scroll(y)

\* a scroll event after destroy(): no listener of the widget hears it
ScrollUnheard(y) ==
  /\ destroyed
  /\ scrollY' = y
  /\ last' = [op |-> "scrollUnheard", arg |-> "", idx |-> 0,
              wasOpen |-> nav.isOpen, outside |-> FALSE]
  /\ UNCHANGED <<wvars, hvars, tvars, lvars, fvars, gvars, bvars, focusable,
                 activeElement, trapListeners, activations, destroyed,
                 sections, navLinks, currentSection, active, spyTimer>>

\* destroy(): this.cleanup.forEach(fn => fn()); this.cleanup = []
SpyDestroy ==
  /\ ~destroyed
  /\ destroyed' = TRUE
  /\ last' = [op |-> "destroy", arg |-> "", idx |-> 0,
              wasOpen |-> nav.isOpen, outside |-> FALSE]
  /\ UNCHANGED <<wvars, svars, hvars, tvars, lvars, fvars, gvars, bvars, focusable,
                 activeElement, trapListeners, activations>>

NextTeardown ==
  \/ \E y \in ScrollPositions : SpyScroll(y)
  \/ \E y \in ScrollPositions : ScrollUnheard(y)
  \/ SpyTimerFire
  \/ SpyDestroy

SpecTeardown == InitSpyPage /\ [][NextTeardown]_vars

\* ------------------------------------------------------------- bootstrap
\* The DOM-ready bootstrap of either variant over the anchors the page
\* holds. boot.listeners names the listeners registered, boot.marks the
\* initial state the widgets have written, boot.thrown an exception in
\* flight. In-page links exist exactly when the nav root does, the form has
\* fields, the FAQ container has items. The PerformanceObserver callbacks,
\* the focus-visible listeners and the link decorations are not kept.

listen(b, names) == [b EXCEPT !.listeners = @ \cup names]

mark(b, names) == [b EXCEPT !.marks = @ \cup names]

\* DOM.queryAll letting the TypeError of a null context escape
queryAllInUncaught(b, present) ==
  IF present THEN b ELSE [b EXCEPT !.thrown = TRUE]

\* DOM.queryAll(selector, context) for its effect: with a null context
\* context.querySelectorAll throws inside the try, the catch warns and
\* returns []
queryAllIn(b, present) ==
  IF present THEN b ELSE [b EXCEPT !.warned = TRUE]

\* new MobileNav('.header__nav')
mobileNavConstructor(b) ==
  IF anchors.nav /\ anchors.toggle
    THEN mark(listen(b, {"toggle.click", "document.keydown:nav",
                         "document.click:nav", "window.resize:nav"}),
              {"toggle.aria", "nav.id"})
    ELSE b

\* new SmoothScroll('a[href^="#"]')
smoothScrollConstructor(b) ==
  IF anchors.nav THEN listen(b, {"link.click:smooth"}) ELSE b

\* new FormValidator('#contact-form') behind App's own test of the form
formValidatorConstructor(b) ==
  IF anchors.form
    THEN listen(b, {"field.blur", "field.input", "form.submit"})
    ELSE b

\* new FAQAccordion('.faq') behind App's own test of the container
faqAccordionConstructor(b) ==
  IF anchors.faq
    THEN mark(listen(b, {"question.click"}), {"faq.aria", "answer.hidden"})
    ELSE b

\* new ScrollSpy('.header__nav', 'section[id]'): navLinks is queried inside
\* this.nav before the test of nav and sections
scrollSpyConstructor(b) ==
  LET q == queryAllIn(b, anchors.nav)
  IN  IF q.thrown THEN q
      ELSE IF anchors.nav /\ anchors.sections
        THEN mark(listen(q, {"window.scroll:spy"}), {"spy.initial"})
        ELSE q

\* new LazyImages('img[data-src]')
lazyImagesConstructor(b) ==
  IF ~anchors.images THEN b
  ELSE IF hasIO THEN mark(b, {"images.observed"})
  ELSE mark(b, {"images.loaded"})

\* App.initializeComponents
initializeComponents(b) ==
  LET spied == scrollSpyConstructor(
                 faqAccordionConstructor(
                   formValidatorConstructor(
                     smoothScrollConstructor(
                       mobileNavConstructor(b)))))
  IN  IF spied.thrown THEN spied ELSE lazyImagesConstructor(spied)

\* new App(): the callback App.init hands to Events.ready
appConstructor(b) ==
  LET c == initializeComponents(b)
  IN  IF c.thrown THEN c
      ELSE mark(listen(c, {"window.beforeprint", "window.afterprint",
                           "window.hashchange"}),
                {"page.announced"})

\* new PerformanceMonitor(): observeResourceLoading pushes to this.cleanup,
\* which the class never assigns
performanceMonitorConstructor(b) == [b EXCEPT !.thrown = TRUE]

\* new ErrorHandler() / ErrorHandler.init()
errorHandlerInit(b) ==
  listen(b, {"window.error", "window.unhandledrejection"})

\* the callback the modular entry point hands to Events.ready
bootstrap(b) ==
  LET a == appConstructor(b)
      p == IF a.thrown THEN a ELSE performanceMonitorConstructor(a)
      e == IF p.thrown THEN p ELSE errorHandlerInit(p)
  IN  IF e.thrown THEN [e EXCEPT !.thrown = FALSE, !.caught = TRUE] ELSE e

\* HeaderManager.init
headerManagerInit(b) ==
  IF anchors.header
    THEN mark(listen(b, {"window.scroll:header"}), {"header.initial"})
    ELSE b

\* MobileNav.init (vanilla)
mobileNavInitV(b) ==
  IF anchors.nav /\ anchors.toggle
    THEN mark(listen(b, {"toggle.click", "navLink.click:nav",
                         "document.keydown:nav", "document.click:nav",
                         "window.resize:nav"}),
              {"toggle.aria", "nav.id"})
    ELSE b

\* SmoothScroll.init (vanilla)
smoothScrollInitV(b) ==
  IF anchors.nav THEN listen(b, {"link.click:smooth"}) ELSE b

\* LazyImages.init (vanilla)
lazyImagesInitV(b) ==
  IF hasNativeLoading \/ ~anchors.images THEN b
  ELSE IF hasIO THEN mark(b, {"images.observed"})
  ELSE mark(b, {"images.loaded"})

\* App.init (vanilla)
appInitV(b) ==
  errorHandlerInit(
    lazyImagesInitV(
      smoothScrollInitV(
        mobileNavInitV(
          headerManagerInit(b)))))

\* what an error event's error or a rejection's reason can be
EventValues == {"Error", "string", "null", "undefined"}

NoRecord == [message |-> "", stack |-> "", url |-> "", userAgent |-> "",
             timestamp |-> ""]

\* the object reportError hands to console.log
DiagnosticRecord(error) ==
  [message |-> IF error = "Error" THEN "error.message" ELSE "undefined",
   stack |-> IF error = "Error" THEN "error.stack" ELSE "undefined",
   url |-> "location.href", userAgent |-> "navigator.userAgent",
   timestamp |-> "toISOString"]

\* reportError(error): error.message of null or undefined is a TypeError
reportError(error) ==
  IF error \in {"null", "undefined"}
    THEN [threw |-> TRUE, logged |-> FALSE, record |-> NoRecord]
    ELSE [threw |-> FALSE, logged |-> TRUE, record |-> DiagnosticRecord(error)]

Unheard == [threw |-> FALSE, logged |-> FALSE, record |-> NoRecord]

\* the DOM is ready: the bootstrap of the page's variant runs
Bootstrap ==
  /\ ~boot.ran
  /\ boot' = [(IF variant = "modular" THEN bootstrap(boot) ELSE appInitV(boot))
                EXCEPT !.ran = TRUE]
  /\ last' = [op |-> "DOMContentLoaded", arg |-> "", idx |-> 0,
              wasOpen |-> FALSE, outside |-> FALSE]
  /\ UNCHANGED <<wvars, svars, hvars, tvars, lvars, fvars, gvars, pvars,
                 anchors, reports>>

\* an uncaught error ("error") or an unhandled rejection
\* ("unhandledrejection") reaches the window
GlobalEvent(type, value) ==
  /\ reports < MaxReports
  /\ LET r == IF ("window." \o type) \in boot.listeners
                THEN reportError(value) ELSE Unheard
     IN  /\ reports' = IF r.logged THEN reports + 1 ELSE reports
         /\ last' = [op |-> type, arg |-> value, idx |-> reports,
                     wasOpen |-> FALSE, outside |-> FALSE,
                     booted |-> boot.ran, threw |-> r.threw,
                     logged |-> r.logged, record |-> r.record]
  /\ UNCHANGED <<wvars, svars, hvars, tvars, lvars, fvars, gvars, pvars,
                 anchors, boot>>

NextBoot ==
  \/ Bootstrap
  \/ \E value \in EventValues \ {"undefined"} : GlobalEvent("error", value)
  \/ \E value \in EventValues : GlobalEvent("unhandledrejection", value)

InitBoot ==
  /\ anchors \in [DOMAIN NoAnchors -> BOOLEAN]
  /\ boot = NotBooted
  /\ reports = 0

InitBootPage ==
  /\ \E v \in Variants : WidgetsResting(v)
  /\ SpyAtRest
  /\ HeaderAtRest
  /\ TimersAtRest
  /\ hasIO \in BOOLEAN
  /\ hasNativeLoading \in BOOLEAN
  /\ images = [i \in 1..NumImages |->
                 [src |-> "placeholder", dataSrc |-> Absent, loaded |-> FALSE]]
  /\ observed = {}
  /\ deferred = [i \in 1..NumImages |-> Absent]
  /\ srcWrites = [i \in 1..NumImages |-> 0]
  /\ InputsAtRest
  /\ FormAtRest
  /\ TrapAtRest
  /\ InitBoot

SpecBoot == InitBootPage /\ [][NextBoot]_vars

\* ================================================================= claims

\* the sections whose range [offsetTop, offsetTop + offsetHeight) holds the
\* point scrollY + HEADER_OFFSET
Containing ==
  {i \in 1..NumSections :
     /\ scrollY + HEADER_OFFSET >= sections[i].offsetTop
     /\ scrollY + HEADER_OFFSET < sections[i].offsetTop + sections[i].offsetHeight}

\* the nav links that carry the active class
ActiveSet == {j \in 1..NumLinks : active[j]}

LinksTo(k) == {j \in 1..NumLinks : navLinks[j] = k}


NavClosed(n) == ~n.isOpen /\ n.expanded = "false" /\ ~n.openClass

\* C1: from every reachable state, two consecutive toggle activations
\* (toggleNav of either variant, toggleItem on one FAQ item) give back the
\* open/closed state and the aria-expanded value the widget had before.
C1_ToggleTwiceRoundTrip ==
  /\ LET w2 == IF variant = "modular" THEN toggleNav(toggleNav(World))
                                      ELSE toggleNavV(toggleNavV(World))
     IN /\ w2.nav.isOpen = nav.isOpen
        /\ w2.nav.expanded = nav.expanded
  /\ variant = "modular" =>
       \A i \in Items :
         LET w2 == toggleItem(toggleItem(World, i), i)
         IN /\ w2.faq[i].expanded = faq[i].expanded
            /\ w2.faq[i].openAttr = faq[i].openAttr

\* C2: a call of openNav while the nav is open, or of closeNav while it is
\* closed, changes neither isOpen, the open class, aria-expanded, the toggle
\* label, the focused element (now or by a timeout it schedules) nor the
\* announcements.
C2_RedundantCallNoOp ==
  [][ \/ (last'.op = "openNav" /\ nav.isOpen)
      \/ (last'.op = "closeNav" /\ ~nav.isOpen)
      => /\ nav' = nav
         /\ focus' = focus
         /\ live' = live
         /\ focusTimers' = focusTimers ]_vars

\* C3: an Escape keydown while the nav is open leaves it closed (isOpen
\* false, aria-expanded "false", open class removed); an Escape keydown while
\* it is closed, and any other key, changes nothing of the navigation.
C3_EscapeClosesNav ==
  [][ last'.op = "keydown" =>
        IF last'.arg = "Escape" /\ nav.isOpen
          THEN NavClosed(nav')
          ELSE /\ nav' = nav
               /\ focus' = focus
               /\ live' = live
               /\ focusTimers' = focusTimers ]_vars

C3_Witness ==
  /\ last.op = "keydown"
  /\ last.arg = "Escape"
  /\ last.wasOpen
  /\ NavClosed(nav)

\* C4: a click outside the nav root and the toggle while the nav is open
\* closes it; a click inside the nav root or the toggle never runs the
\* outside-click closure, and one click on the toggle changes the state
\* exactly once (one flip of isOpen, one announcement in the modular variant).
C4_OutsideClick ==
  [][ last'.op = "click" =>
        /\ (last'.arg = "outside" /\ nav.isOpen)
             => (NavClosed(nav') /\ last'.outside)
        /\ last'.arg \in {"toggle", "navLink", "navOther"} => ~last'.outside
        /\ last'.arg = "toggle" =>
             /\ nav'.isOpen = ~nav.isOpen
             /\ nav'.expanded = (IF nav.isOpen THEN "false" ELSE "true")
             /\ variant = "modular" => Len(live') = Len(live) + 1 ]_vars

C4_Witness ==
  /\ last.op = "click"
  /\ last.arg = "toggle"
  /\ ~last.wasOpen
  /\ ~last.outside
  /\ nav.isOpen
  /\ nav.expanded = "true"

\* C5: when the resize timeout fires with the nav open and the window at a
\* width greater than or equal to the breakpoint (768 included), the nav is
\* closed and the toggle shows aria-expanded "false"; at a width below the
\* breakpoint the nav stays as it is.
C5_ResizeClosesAtBreakpoint ==
  [][ last'.op = "resizeTimer" =>
        IF innerWidth >= BREAKPOINT
          THEN nav.isOpen => NavClosed(nav')
          ELSE nav' = nav ]_vars

\* C6: every transition of the nav into open sets aria-expanded "true",
\* moves focus to the first link of the nav and emits an announcement; every
\* transition into closed sets aria-expanded "false" and emits an
\* announcement.
C6_TransitionEffects ==
  [][ /\ (~nav.isOpen /\ nav'.isOpen) =>
           /\ nav'.expanded = "true"
           /\ focus' = "navLink"
           /\ Len(live') = Len(live) + 1
           /\ live'[Len(live')].text = "Menu ouvert"
      /\ (nav.isOpen /\ ~nav'.isOpen) =>
           /\ nav'.expanded = "false"
           /\ Len(live') = Len(live) + 1
           /\ live'[Len(live')].text = "Menu ferme" ]_vars

\* C7 as stated: a click that opens a FAQ item changes no other FAQ item and
\* neither isOpen nor aria-expanded of the nav; a click that opens the nav
\* changes no FAQ item.
C7_OpeningLeavesOthers ==
  [][ last'.op = "click" =>
        /\ \A i \in Items :
             (faq[i].expanded = "false" /\ faq'[i].expanded = "true") =>
               /\ \A j \in Items \ {i} : faq'[j] = faq[j]
               /\ nav'.isOpen = nav.isOpen
               /\ nav'.expanded = nav.expanded
        /\ (~nav.isOpen /\ nav'.isOpen) =>
             (faq' = faq /\ fadeTimers' = fadeTimers) ]_vars

\* C7 amended: a click that opens a FAQ item changes no other FAQ item; it
\* leaves the nav as it is when the nav is closed and, being a click outside
\* the nav root and the toggle, closes the nav when the nav is open; a click
\* that opens the nav changes no FAQ item.
C7_OpeningClosesOnlyOpenNav ==
  [][ last'.op = "click" =>
        /\ \A i \in Items :
             (faq[i].expanded = "false" /\ faq'[i].expanded = "true") =>
               /\ \A j \in Items \ {i} :
                    faq'[j] = faq[j] /\ fadeTimers'[j] = fadeTimers[j]
               /\ IF nav.isOpen THEN NavClosed(nav') /\ last'.outside
                                ELSE nav' = nav
        /\ (~nav.isOpen /\ nav'.isOpen) =>
             (faq' = faq /\ fadeTimers' = fadeTimers) ]_vars

C7_Witness ==
  /\ last.op = "click"
  /\ last.arg = "faqQ"
  /\ last.idx = 1
  /\ faq[1].expanded = "true"
  /\ faq[2].expanded = "true"
  /\ last.wasOpen
  /\ last.outside
  /\ ~nav.isOpen

C9_ExactlyOneLinkActive ==
  /\ [](Cardinality(ActiveSet) <= 1)
  /\ [][ (last'.op = "spyTimer" /\ Cardinality(Containing) = 1
            /\ currentSection \notin Containing) =>
           /\ currentSection' \in Containing
           /\ Cardinality(ActiveSet') = 1
           /\ \A j \in ActiveSet' : navLinks[j] = currentSection' ]_vars

\* C9 amended: in that case the section becomes currentSection and the
\* active class is carried by the first nav link whose href names it and by
\* no other in-page nav link, so by no link at all when the nav has no link
\* to that section; and at most one nav link is active in every state.
C9_FirstLinkOfSectionActive ==
  /\ [](Cardinality(ActiveSet) <= 1)
  /\ [][ (last'.op = "spyTimer" /\ Cardinality(Containing) = 1
            /\ currentSection \notin Containing) =>
           /\ currentSection' \in Containing
           /\ ActiveSet' = IF LinksTo(currentSection') = {} THEN {}
                           ELSE {MinOf(LinksTo(currentSection'))} ]_vars

C9_Witness ==
  /\ last.op = "spyTimer"
  /\ last.idx # 0
  /\ last.idx # currentSection
  /\ Containing = {currentSection}
  /\ Cardinality(LinksTo(currentSection)) = 2
  /\ ActiveSet = {1}

\* C10 as stated: when the point lies in the ranges of several sections,
\* updateActiveSection makes the first of them in DOM order the active one.
C10_FirstContainingWins ==
  [][ (last'.op = "spyTimer" /\ Cardinality(Containing) > 1) =>
        currentSection' = MinOf(Containing) ]_vars

\* C10 amended: when the point lies in the ranges of several sections,
\* updateActiveSection makes the last of them in DOM order the active one.
C10_LastContainingWins ==
  [][ (last'.op = "spyTimer" /\ Cardinality(Containing) > 1) =>
        currentSection' = MaxOf(Containing) ]_vars

C10_Witness ==
  /\ last.op = "spyTimer"
  /\ Cardinality(Containing) > 1
  /\ last.idx = MinOf(Containing)
  /\ currentSection = MaxOf(Containing)

\* C11: when updateActiveSection runs and no section's range contains
\* scrollY + 100, or the section it finds containing the point (the last one
\* in DOM order when several overlap) is already the current one,
\* currentSection and the active class of every nav link stay as they were.
C11_NoMatchOrSameKeeps ==
  [][ (/\ last'.op = "spyTimer"
       /\ \/ Containing = {}
          \/ MaxOf(Containing) = currentSection) =>
        (currentSection' = currentSection /\ active' = active) ]_vars

C11_Witness ==
  /\ last.op = "spyTimer"
  /\ Containing = {}
  /\ currentSection # 0
  /\ last.idx = currentSection
  /\ ActiveSet # {}

\* C12: in the state every execution of HeaderManager.handleScroll leaves
\* (the one HeaderManager.init makes included), the header carries the class
\* scrolled exactly when the scroll offset is above 20, and lastScrollTop
\* is the larger of 0 and the offset.
C12_HeaderFollowsOffset ==
  (header.present /\ last.op \in {"init", "handleScroll"}) =>
     /\ header.scrolled <=> (pageYOffset > 20)
     /\ lastScrollTop = IF pageYOffset > 0 THEN pageYOffset ELSE 0

C12_Witness ==
  /\ last.op = "handleScroll"
  /\ pageYOffset = 20
  /\ ~header.scrolled
  /\ lastScrollTop = 20

\* C13: for a wrapper built by Events.throttle or by the vanilla
\* Utils.throttle, under any sequence of calls at any times, any two
\* invocations of the wrapped function are at least wait apart.
C13_ThrottleSpacing ==
  wrapper \in {"Events.throttle", "Utils.throttle"} =>
    \A i, j \in 1..Len(hist.invoked) :
       i < j => hist.invoked[j].at - hist.invoked[i].at >= wait

C13_Witness ==
  /\ wrapper = "Utils.throttle"
  /\ hist.calls = 3
  /\ Len(hist.invoked) = 2
  /\ hist.invoked[2].at - hist.invoked[1].at = wait

\* C14: for a wrapper built by Events.debounce (immediate false) or by the
\* vanilla Utils.debounce, the wrapped function is invoked only by the
\* timeout, at a moment when at least wait has passed since the most recent
\* call of the wrapper; so never while calls keep arriving less than wait
\* apart.
C14_DebounceQuietPeriod ==
  [][ (/\ wrapper \in {"Events.debounce", "Utils.debounce"}
       /\ Len(hist'.invoked) > Len(hist.invoked)) =>
        /\ last'.op = "timer"
        /\ hist.calls > 0
        /\ now - hist.lastCallAt >= wait ]_vars

C14_Witness ==
  /\ wrapper = "Events.debounce"
  /\ last.op = "timer"
  /\ hist.burstCalls = 2
  /\ Len(hist.invoked) = 1
  /\ now - hist.lastCallAt = wait

\* C15: for each of the four wrappers, at most one timeout is pending at
\* any time, and a burst of calls, each less than wait after the previous
\* one, gets at most one invocation of the wrapped function, exactly one
\* once no timeout is pending, made with the arguments of the last call of
\* the burst.
C15_BurstOneInvocationLastArgs ==
  /\ Cardinality(timers) <= 1
  /\ hist.burstInvoked <= 1
  /\ hist.burstInvoked = 1 =>
       hist.invoked[Len(hist.invoked)].args = hist.lastCallArgs
  /\ (hist.calls > 0 /\ timers = {}) => hist.burstInvoked = 1

\* the markup gave the image a source to defer
HasDeferred(i) == deferred[i] # Absent /\ deferred[i] # ""

\* C16: over any sequence of observer callbacks and loadImage calls, the
\* loader assigns an image's src at most once, from the deferred source;
\* after that the data-src attribute is absent, and every later loadImage
\* or intersection entry for the image leaves its src as it is.
C16_SrcAssignedOnce ==
  /\ [](\A i \in 1..NumImages :
          /\ srcWrites[i] <= 1
          /\ srcWrites[i] = 1 =>
               (images[i].dataSrc = Absent /\ images[i].src = deferred[i]))
  /\ [][ \A i \in 1..NumImages :
           srcWrites[i] >= 1 => images'[i].src = images[i].src ]_vars

C16_Witness ==
  /\ last.op = "intersect"
  /\ last.hits = 2
  /\ \E i \in 1..NumImages :
       /\ last.hit = {i}
       /\ srcWrites[i] = 1
       /\ images[i].src = "a.jpg"
       /\ images[i].dataSrc = Absent

\* the loader's init set up an observer and observed the images
EverObserved ==
  /\ hasIO
  /\ variant = "vanilla" => ~hasNativeLoading

\* C17: an observer callback whose entries for an observed image all have
\* isIntersecting false leaves the image as it is and observed; a callback
\* with an intersecting entry for it unobserves it in that same callback
\* and, the image having a deferred source, has copied that source into src
\* and removed data-src; an image is never observed again, and once
\* unobserved never changed again.
C17_FireOnce ==
  /\ [][ last'.op = "intersect" =>
           \A i \in observed :
              IF i \in last'.hit
                THEN /\ i \notin observed'
                     /\ HasDeferred(i) =>
                          /\ images'[i].src = deferred[i]
                          /\ images'[i].dataSrc = Absent
                ELSE /\ i \in observed'
                     /\ images'[i] = images[i] ]_vars
  /\ [][ observed' \subseteq observed ]_vars
  /\ [][ \A i \in 1..NumImages :
           (EverObserved /\ i \notin observed) =>
              (images'[i] = images[i] /\ srcWrites'[i] = srcWrites[i]) ]_vars

C17_Witness ==
  /\ last.op = "intersect"
  /\ last.idx = 2
  /\ last.hits = 1
  /\ Cardinality(last.seen) = 2
  /\ \E i \in last.hit :
       /\ i \notin observed
       /\ images[i].src = "a.jpg"
       /\ last.seen \ {i} \subseteq observed

\* C18: where the environment has no IntersectionObserver, the loader's
\* init of either variant has copied the deferred source of every selected
\* image into src, whatever else the environment supports.
C18_FallbackLoadsAll ==
  (last.op = "init" /\ ~hasIO) =>
     \A i \in 1..NumImages : HasDeferred(i) => images[i].src = deferred[i]

\* x is non-empty and holds no whitespace and no '@'
IsSegment(x) ==
  /\ x # <<>>
  /\ \A k \in 1..Len(x) : x[k] \notin Whitespace \cup {"@"}

\* str is x@y.z for three segments x, y, z, of lengths lx, ly and the rest
ShapedXatYdotZ(str) ==
  \E lx, ly \in 1..Len(str) :
     /\ lx + ly + 2 < Len(str)
     /\ IsSegment(SubSeq(str, 1, lx))
     /\ str[lx + 1] = "@"
     /\ IsSegment(SubSeq(str, lx + 2, lx + ly + 1))
     /\ str[lx + ly + 2] = "."
     /\ IsSegment(SubSeq(str, lx + ly + 3, Len(str)))

\* the positions of character ch in str
PositionsOf(str, ch) == {k \in 1..Len(str) : str[k] = ch}

\* str has an '@' and no '.' after its last '@'
NoDotAfterAt(str) ==
  /\ PositionsOf(str, "@") # {}
  /\ \A k \in PositionsOf(str, ".") : k < MaxOf(PositionsOf(str, "@"))

\* C19: both email validators return true for every string x@y.z whose
\* three segments are non-empty and hold no whitespace and no '@', false for
\* every string without '@' and for every string without '.' after the '@',
\* and the two return the same for every string.
C19_EmailValidators ==
  verdict.fn = "email" =>
    /\ ShapedXatYdotZ(input) => (verdict.component /\ verdict.form)
    /\ (PositionsOf(input, "@") = {} \/ NoDotAfterAt(input)) =>
          (~verdict.component /\ ~verdict.form)
    /\ verdict.component = verdict.form

C19_Witness ==
  /\ verdict.fn = "email"
  /\ input = <<"a", "@", "a", ".", "a">>
  /\ verdict.component
  /\ verdict.form

\* the digits and the punctuation '-', '(' and ')'
DigitOrPunctuation == Digits \cup {"-", "(", ")"}

\* how many characters of str are digits or punctuation
RECURSIVE CountDigitOrPunctuation(_)
CountDigitOrPunctuation(str) ==
  IF str = <<>> THEN 0
  ELSE (IF Head(str) \in DigitOrPunctuation THEN 1 ELSE 0)
         + CountDigitOrPunctuation(Tail(str))

\* str is '', '+', '(' or '+(' followed by at least n digits and punctuation
\* characters and nothing else
PrefixedRun(str, n) ==
  \E p \in {<<>>, <<"+">>, <<"(">>, <<"+", "(">>} :
     /\ Len(str) >= Len(p) + n
     /\ SubSeq(str, 1, Len(p)) = p
     /\ \A k \in (Len(p) + 1)..Len(str) : str[k] \in DigitOrPunctuation

\* C20: both phone validators reject every string that, its whitespace
\* removed, has fewer than 8 digit and punctuation characters, and accept
\* every string that, its whitespace removed, is an optional '+', an
\* optional '(' and then at least 10 digit and punctuation characters only.
C20_PhoneValidators ==
  verdict.fn = "phone" =>
    /\ CountDigitOrPunctuation(removeWhitespace(input)) < 8 =>
          (~verdict.component /\ ~verdict.form)
    /\ PrefixedRun(removeWhitespace(input), 10) =>
          (verdict.component /\ verdict.form)

C20_Witness ==
  /\ verdict.fn = "phone"
  /\ input = <<"+", "(">> \o Run("1", 10)
  /\ verdict.component
  /\ verdict.form

\* ---- FormValidator.validateField

\* the required rule fails: a required field left blank
RequiredFails(f) == f.required /\ trim(f.value) = <<>>

\* the type-specific rule applies and fails
TypeFails(f) ==
  /\ trim(f.value) # <<>>
  /\ \/ f.type = "email" /\ ~validateEmail(trim(f.value))
     \/ f.type = "tel" /\ ~validatePhone(trim(f.value))

TypeMessage(f) == IF f.type = "email" THEN MSG_EMAIL ELSE MSG_PHONE

\* the custom rule applies and fails: data-validate="age" and no age of 0..10
CustomFails(f) ==
  /\ f.validate = "age"
  /\ parseInt(trim(f.value)) \notin {Number(n) : n \in 0..10}

RuleRank(rule) ==
  IF rule = "required" THEN 1 ELSE IF rule = "custom" THEN 3 ELSE 2

\* C21: validateField tests required, then the type-specific rule, then the
\* custom rule; the message rendered is the first failing rule's, no rule is
\* tested after a failing one, and the field is valid exactly when no
\* applicable rule fails.
C21_RuleOrder ==
  last.op = "blur" =>
    LET f == fields[last.idx]
        ev == outcome.evaluated
    IN  /\ \A a, b \in 1..Len(ev) : a < b => RuleRank(ev[a]) < RuleRank(ev[b])
        /\ outcome.isValid <=>
             ~RequiredFails(f) /\ ~TypeFails(f) /\ ~CustomFails(f)
        /\ outcome.isValid => outcome.message = "" /\ errors[last.idx] = <<>>
        /\ RequiredFails(f) =>
             /\ outcome.message = MSG_REQUIRED
             /\ ev = <<"required">>
        /\ ~RequiredFails(f) /\ TypeFails(f) =>
             /\ outcome.message = TypeMessage(f)
             /\ ev = <<"required", f.type>>
        /\ ~RequiredFails(f) /\ ~TypeFails(f) /\ CustomFails(f) =>
             /\ outcome.message = MSG_AGE
             /\ ev[Len(ev)] = "custom"
        /\ ~outcome.isValid => errors[last.idx] = <<outcome.message>>

\* a blank required field whose age rule would fail too: only the required
\* rule was tested
C21_Witness ==
  /\ last.op = "blur"
  /\ RequiredFails(fields[last.idx])
  /\ CustomFails(fields[last.idx])
  /\ outcome.message = MSG_REQUIRED
  /\ outcome.evaluated = <<"required">>


\* the verdicts of the validateField calls of the step just taken, per field
Verdicts == {outcome.validated[k] : k \in DOMAIN outcome.validated}

\* C22: after validateField returned false the field carries aria-invalid
\* "true", the error class and an aria-describedby that names an existing
\* error element whose text is the failure message; after it returned true
\* the field carries none of the three and has no error element.
C22_PostState ==
  last.op \in {"blur", "submit"} =>
    \A v \in Verdicts :
      LET f == fields[v.field]
      IN  IF v.isValid
          THEN /\ f.ariaInvalid = Absent
               /\ ~f.errorClass
               /\ f.describedby = 0
               /\ errors[v.field] = <<>>
          ELSE /\ f.ariaInvalid = "true"
               /\ f.errorClass
               /\ f.describedby = v.field
               /\ errors[v.field] # <<>>
               /\ Head(errors[v.field]) = v.message

\* one submit found a filled field valid and another field invalid
C22_Witness ==
  /\ last.op = "submit"
  /\ \E v, w \in Verdicts :
       /\ v.isValid
       /\ fields[v.field].value # <<>>
       /\ ~w.isValid
       /\ errors[w.field] = <<w.message>>

\* ---- Form.showError / Form.clearError of the utilities, on the same fields

formClearError(g, i) ==
  [g EXCEPT !.fields[i].errorClass = FALSE,
            !.fields[i].ariaInvalid = Absent,
            !.fields[i].describedby = 0,
            !.errors[i] = IF @ = <<>> THEN @ ELSE Tail(@)]

formShowError(g, i, message) ==
  LET c == formClearError(g, i)
  IN  [c EXCEPT !.fields[i].errorClass = TRUE,
                !.fields[i].ariaInvalid = "true",
                !.fields[i].describedby = i,
                !.errors[i] = Append(@, message)]

\* C23: whatever blur, input and submit events came, a field has at most one
\* error element with the id <field id>-error; a failure replaces the
\* element of the failure before it, through FormValidator.showFieldError
\* and through Form.showError alike.
C23_AtMostOneError ==
  \A i \in DOMAIN fields :
    /\ Len(errors[i]) <= 1
    /\ Len(formShowError(Form, i, MSG_REQUIRED).errors[i]) = 1
    /\ Len(showFieldError(Form, i, MSG_REQUIRED).errors[i]) = 1

\* a field that showed an error failed again and shows one error
C23_Witness ==
  /\ last.op \in {"blur", "submit"}
  /\ \E v \in Verdicts :
       /\ ~v.isValid
       /\ v.hadError
       /\ Len(errors[v.field]) = 1

\* ---- FormValidator.handleSubmit

\* the fields whose value fails validateField's rules
Failing == {i \in DOMAIN fields : ~checkField(fields[i]).isValid}

\* the fields that carry the class form-input--error
Marked == {i \in DOMAIN fields : fields[i].errorClass}

\* C24: handleSubmit always cancels the native submission, validates every
\* field, the ones after a failing field too, and calls submitForm exactly
\* when every field passed.
C24_SubmitGate ==
  last.op = "submit" =>
    /\ outcome.prevented
    /\ Len(outcome.validated) = Len(fields)
    /\ \A k \in DOMAIN outcome.validated :
         /\ outcome.validated[k].field = k
         /\ outcome.validated[k].isValid <=> k \notin Failing
    /\ outcome.submitted <=> Failing = {}
    /\ outcome.submitted => runs # {}

\* the first field failed and the second was validated all the same
C24_Witness ==
  /\ last.op = "submit"
  /\ 1 \in Failing
  /\ Len(outcome.validated) >= 2
  /\ ~outcome.submitted

\* C25: on a blocked submit the fields marked invalid are exactly the fields
\* whose value fails validation, the focus is on the first of them in the
\* document, and one assertive announcement was made.
C25_BlockedSubmit ==
  last.op = "submit" /\ ~outcome.submitted =>
    /\ Marked = Failing
    /\ formFocus \in Failing
    /\ \A j \in Failing : fields[formFocus].pos <= fields[j].pos
    /\ Cardinality(outcome.announced) = 1
    /\ \A r \in outcome.announced : r.priority = "assertive" /\ r \in regions

\* the scenario of an empty required field and a valid email field, the
\* required one first in the document and last in this.fields
C25_Witness ==
  /\ last.op = "submit"
  /\ ~outcome.submitted
  /\ Cardinality(Marked) = 1
  /\ \E i, j \in DOMAIN fields :
       /\ fields[i].required /\ fields[i].value = <<>> /\ formFocus = i
       /\ fields[j].type = "email" /\ fields[j].value # <<>> /\ j \notin Failing
       /\ j < i /\ fields[i].pos < fields[j].pos

\* ---- FormValidator.submitForm

\* C26: for one run of submitForm, one that no other run overlaps, the
\* submit button is disabled and shows the in-progress label from the start
\* of the run until the submission settles; once it has settled, by success
\* or by a throw, the button is enabled and shows the label it had before
\* the run.
C26_ButtonDuringRun ==
  /\ \A r \in runs :
       r.alone => submitBtn.disabled /\ submitBtn.text = IN_PROGRESS
  /\ last.op = "resolve" =>
       \A r \in outcome.settled :
         r.alone => ~submitBtn.disabled /\ submitBtn.text = r.originalText

\* a run on its own ended by a throw and the button shows the markup's label
C26_Witness ==
  /\ last.op = "resolve"
  /\ last.arg = "throws"
  /\ \E r \in outcome.settled : r.alone /\ r.originalText = SUBMIT_LABEL
  /\ submitBtn = [present |-> TRUE, disabled |-> FALSE, text |-> SUBMIT_LABEL]

\* ---- the form's banners

Handles == 1..(MaxPending + 1)

BannerShown(h) == \E b \in banners : b.id = h

\* every banner in the document has its removal pending, due BANNER_DELAY
\* after the insertion and not overdue; a removal by the timeout happens at
\* that time; a success banner is inserted when a run resumes,
\* SUBMISSION_LATENCY after the run started
BannerTiming ==
  /\ \A b \in banners :
       \E t \in pending :
         /\ t.id = b.id
         /\ t.args.kind = "removeBanner"
         /\ t.due = b.at + BANNER_DELAY
         /\ now <= t.due
  /\ last.op = "removeBanner" =>
       \A b \in outcome.removed : now = b.at + BANNER_DELAY
  /\ last.op = "resolve" /\ last.arg = "" =>
       \E b \in banners :
         /\ b.kind = "success"
         /\ b.at = now
         /\ \A r \in outcome.settled : b.at >= r.at + SUBMISSION_LATENCY

\* a banner enters the document only when a run resumes; the timeout of a
\* banner that has left the document changes nothing
BannerSteps ==
  /\ \A b \in banners' \ banners :
       /\ last'.op = "resolve"
       /\ b.at = now'
       /\ \E r \in outcome'.settled : now' >= r.at + SUBMISSION_LATENCY
  /\ last'.op = "removeBanner" /\ outcome'.removed = {} => banners' = banners

\* C27: every success or failure banner is removed in the end, 5 seconds
\* after its insertion; the removal does nothing when the banner has left
\* the document already; a success banner is rendered only once the 2
\* seconds of the submission have passed.
C27_BannersRemoved ==
  /\ []BannerTiming
  /\ [][BannerSteps]_vars
  /\ \A h \in Handles : BannerShown(h) ~> ~BannerShown(h)

\* the timeout has removed a success banner 5 s after a run resumed
C27_Witness ==
  /\ last.op = "removeBanner"
  /\ \E b \in outcome.removed :
       /\ b.kind = "success"
       /\ b.at >= SUBMISSION_LATENCY
       /\ now = b.at + BANNER_DELAY
       /\ b \notin banners

\* the timeout of a banner that had been detached ran
C27_WitnessDetached ==
  /\ last.op = "removeBanner"
  /\ outcome.removed = {}

\* ---- A11y.announce over the clock

RegionShown(h) == \E r \in regions : r.id = h

\* every announcer in the document has its removal pending, due
\* ANNOUNCE_DELAY after the call and not overdue: it belongs to a call of
\* the last second; the announcers of the step just taken are in the document
RegionTiming ==
  /\ \A r \in regions :
       \E t \in pending :
         /\ t.id = r.id
         /\ t.args.kind = "removeAnnouncer"
         /\ t.due = r.at + ANNOUNCE_DELAY
         /\ now <= t.due
  /\ last.op = "submit" =>
       \A r \in outcome.announced : r \in regions /\ r.at = now

\* an announcer leaves the document only by its own timeout, ANNOUNCE_DELAY
\* after the call, and enters it only in the step of the call
RegionSteps ==
  /\ \A r \in regions \ regions' :
       /\ last'.op = "removeAnnouncer"
       /\ last'.idx = r.id
       /\ now' = r.at + ANNOUNCE_DELAY
       /\ regions' = regions \ {r}
  /\ \A r \in regions' \ regions : r \in outcome'.announced /\ r.at = now'

\* C28: A11y.announce puts its live region into the document at once and
\* the region's own timeout removes it 1 second later, so the regions in
\* the document are those of the calls of the last second, and none is left
\* once a second has passed without a call.
C28_LiveRegions ==
  /\ []RegionTiming
  /\ [][RegionSteps]_vars
  /\ \A h \in Handles : RegionShown(h) ~> ~RegionShown(h)
  /\ (regions # {}) ~> (regions = {})

\* two calls at one time: the timeout of one region has run, the other
\* region is still in the document
C28_Witness ==
  /\ last.op = "removeAnnouncer"
  /\ Cardinality(regions) = 1
  /\ \A r \in regions : now = r.at + ANNOUNCE_DELAY

\* ---- A11y.focusTrap

\* C29: while the trap is active, Tab on the last focusable element puts
\* the focus on the first and cancels the default, Shift+Tab on the first
\* puts it on the last and cancels the default, every other key and
\* position is left to the browser; after deactivate(), however often
\* activate() was called, no key is intercepted.
C29_FocusTrap ==
  /\ last.op = "keydown" =>
       IF last.listening /\ last.arg = "Tab" /\ ~last.shiftKey
          /\ focusable > 0 /\ last.idx = focusable
       THEN last.prevented /\ activeElement = 1
       ELSE IF last.listening /\ last.arg = "Tab" /\ last.shiftKey
               /\ focusable > 0 /\ last.idx = 1
       THEN last.prevented /\ activeElement = focusable
       ELSE /\ ~last.prevented
            /\ activeElement = defaultAction(last.arg, last.shiftKey, last.idx)
  /\ last.op = "deactivate" => trapListeners = 0
  /\ last.op = "activate" => trapListeners > 0

\* after two activate() and one deactivate(), Tab on the last element took
\* the focus out of the container
C29_Witness ==
  /\ last.op = "keydown"
  /\ last.arg = "Tab"
  /\ ~last.shiftKey
  /\ focusable > 1
  /\ last.idx = focusable
  /\ activations >= 2
  /\ ~last.listening
  /\ ~last.prevented
  /\ activeElement = 0

\* the active trap wrapped Shift+Tab from the first element to the last
C29_WitnessWrap ==
  /\ last.op = "keydown"
  /\ last.listening
  /\ last.shiftKey
  /\ last.idx = 1
  /\ focusable > 1
  /\ activeElement = focusable

\* ---- destroy

\* C30: once destroy() has returned no callback of the widget runs any
\* more, a throttled one that was pending included: the widget's state and
\* the classes of its links stay as they are, and its timeout does not run.
C30_NothingAfterDestroy ==
  [][destroyed => /\ currentSection' = currentSection
                  /\ active' = active
                  /\ last'.op # "spyTimer"]_vars

\* the part of it on the state: after destroy() the current section and the
\* links' classes stay as they are
C30_StateFrozen ==
  [][destroyed => currentSection' = currentSection /\ active' = active]_vars

\* after destroy() no scroll event sets a timeout: the listener is gone
C30_ListenerRemoved ==
  [][destroyed /\ ~spyTimer => ~spyTimer']_vars

\* the widgets the bootstrap of a variant builds
Widgets(v) ==
  IF v = "modular" THEN {"mobileNav", "form", "faq", "spy", "lazy"}
                   ELSE {"header", "mobileNav", "lazy"}

\* the anchors a widget needs are all on the page
Anchored(w) ==
  CASE w = "mobileNav" -> anchors.nav /\ anchors.toggle
    [] w = "form" -> anchors.form
    [] w = "faq" -> anchors.faq
    [] w = "spy" -> anchors.nav /\ anchors.sections
    [] w = "lazy" -> anchors.images
    [] w = "header" -> anchors.header

\* every listener and initial write that belongs to a widget
Belongings(w) ==
  CASE w = "mobileNav" -> {"toggle.click", "navLink.click:nav",
                           "document.keydown:nav", "document.click:nav",
                           "window.resize:nav", "toggle.aria", "nav.id"}
    [] w = "form" -> {"field.blur", "field.input", "form.submit"}
    [] w = "faq" -> {"question.click", "faq.aria", "answer.hidden"}
    [] w = "spy" -> {"window.scroll:spy", "spy.initial"}
    [] w = "lazy" -> {"images.observed", "images.loaded"}
    [] w = "header" -> {"window.scroll:header", "header.initial"}

\* what a widget of variant v has registered and written once it is ready
\* (a vanilla page leaves the images to a browser that loads lazily itself)
Ready(v, w) ==
  CASE w = "mobileNav" -> Belongings(w) \ (IF v = "modular"
                                             THEN {"navLink.click:nav"} ELSE {})
    [] w = "lazy" -> IF v = "vanilla" /\ hasNativeLoading THEN {}
                     ELSE IF hasIO THEN {"images.observed"}
                     ELSE {"images.loaded"}
    [] OTHER -> Belongings(w)

\* C31: once the bootstrap has run, whatever subset of the anchors the page
\* holds, no exception has left it, a widget with a missing anchor has
\* registered no listener and written nothing, and a widget with all its
\* anchors has registered and written everything it needs.
C31_AnchorsDecide ==
  boot.ran =>
    /\ ~boot.thrown
    /\ \A w \in Widgets(variant) :
         IF Anchored(w)
           THEN Belongings(w) \cap (boot.listeners \cup boot.marks)
                  = Ready(variant, w)
           ELSE Belongings(w) \cap (boot.listeners \cup boot.marks) = {}

\* a modular page with sections and a form but no nav root: the scroll spy
\* has queried its links inside null and stayed inert, the form listens
C31_Witness ==
  /\ boot.ran
  /\ variant = "modular"
  /\ anchors.sections /\ anchors.form /\ anchors.images /\ ~anchors.nav
  /\ boot.warned
  /\ "form.submit" \in boot.listeners
  /\ "window.scroll:spy" \notin boot.listeners

GlobalHandlers == {"window.error", "window.unhandledrejection"}

\* C32: once the bootstrap of either variant has run, the window's error and
\* unhandledrejection handlers are installed, and every such event after it
\* is logged as a diagnostic record.
C32_ErrorsCaptured ==
  /\ boot.ran => GlobalHandlers \subseteq boot.listeners
  /\ last.op \in {"error", "unhandledrejection"} /\ last.booted =>
       last.logged /\ DOMAIN last.record = DOMAIN NoRecord

\* the part of C32 on the installation alone
C32_HandlersInstalled ==
  boot.ran => GlobalHandlers \subseteq boot.listeners

\* the part of C32 on the vanilla page and events that carry an Error
C32_VanillaCapturesErrors ==
  /\ boot.ran /\ variant = "vanilla" => GlobalHandlers \subseteq boot.listeners
  /\ /\ last.op \in {"error", "unhandledrejection"}
     /\ last.booted /\ variant = "vanilla" /\ last.arg = "Error"
     => last.logged /\ last.record = DiagnosticRecord("Error")

\* a burst is going on: the last call is less than wait old
Continuing == hist.calls > 0 /\ now - hist.lastCallAt < wait

\* the event loop has run every timeout at its due time
Punctual == ~hist.late /\ \A t \in timers : t.due >= now

\* the wrapped function was invoked at a time in lo..hi
InvokedIn(lo, hi) ==
  \E k \in 1..Len(hist.invoked) : hist.invoked[k].at \in lo..hi

\* C33: while scroll events keep arriving less than one interval apart, the
\* handler behind the scroll spy's wrapper (Events.throttle) and behind the
\* header's (Utils.throttle) has been invoked in every window of one
\* interval since the events began, and not once per event.
C33_SampledEveryInterval ==
  wrapper \in {"Events.throttle", "Utils.throttle"} /\ Continuing /\ Punctual =>
    /\ \A t \in hist.burstStart..(now - wait) : InvokedIn(t, t + wait)
    /\ hist.burstCalls >= 2 => hist.burstInvoked < hist.burstCalls

\* what the header's wrapper does give: an invocation in every window one
\* tick short of two intervals, and not one per event
C33_HeaderLeadingThrottle ==
  wrapper = "Utils.throttle" /\ Continuing /\ Punctual =>
    /\ \A t \in hist.burstStart..(now - 2 * wait + 1) :
         InvokedIn(t, t + 2 * wait - 1)
    /\ hist.burstCalls >= 2 => hist.burstInvoked < hist.burstCalls

\* what the scroll spy's wrapper gives: no invocation while the events go on
C33_SpyStarves ==
  wrapper = "Events.throttle" /\ Continuing /\ Punctual =>
    hist.burstInvoked = 0

\* C34: once the scroll events have stopped and no timeout is pending, the
\* header carries the class scrolled exactly when the final offset is above
\* 20, whether or not the last scroll event fell inside a throttle window.
C34_FinalPositionReflected ==
  header.present /\ ~inThrottle =>
    (header.scrolled <=> (pageYOffset > SCROLLED_THRESHOLD))

\* the part of C34 on the scroll spy: with no timeout pending, a section
\* that contains the final scrollY + 100 is the current section
C34_SpyFinalPosition ==
  ~spyTimer /\ Containing # {} => currentSection \in Containing

\* C35: on the modular page of a visitor without a reduced-motion
\* preference, whenever no fade-out timeout of an item is pending, the
\* item's answer is displayed exactly when its question is expanded.
C35_DisplayFollowsExpanded ==
  variant = "modular" /\ ~reducedMotion =>
    \A i \in Items :
      fadeTimers[i] = 0 =>
        (faq[i].display = "block" <=> faq[i].expanded = "true")

\* C36: for any interleaving of submissions, the submit button is disabled
\* while at least one submitForm call awaits its submission, and once none
\* does the button is enabled and carries the label it had before the first
\* submission.
C36_OverlappingSubmissions ==
  submitBtn.present =>
    /\ runs # {} => submitBtn.disabled
    /\ runs = {} => ~submitBtn.disabled /\ submitBtn.text = SUBMIT_LABEL

\* C37: an inline error of a field, and the field's invalid marking, go
\* away only by a blur or submit validation of the field that passes or by
\* the debounced clearing of an input event that came after the error was
\* rendered; the clearing set by an earlier input event leaves it.
C37_ErrorStaysUntilCorrected ==
  [][\A i \in DOMAIN fields :
       /\ errors[i] # <<>> /\ fields[i].errorClass
       /\ errors'[i] = <<>> \/ ~fields'[i].errorClass
       => \/ /\ last'.op \in {"blur", "submit"}
             /\ \E k \in DOMAIN outcome'.validated :
                  /\ outcome'.validated[k].field = i
                  /\ outcome'.validated[k].isValid
          \/ last'.op = "later" /\ fields[i].inputSince]_vars

\* the debounced clearing of an input event that came after the error
\* does remove it
C37_LaterInputClears ==
  [][\A i \in DOMAIN fields :
       /\ errors[i] # <<>>
       /\ last'.op = "later"
       /\ \E t \in pending \ pending' : t.args.target = i
       => errors'[i] = <<>> /\ ~fields'[i].errorClass]_vars

\* C38: in the modular application, outside a print interval the toggle's
\* aria-expanded is 'true' exactly when MobileNav.isOpen holds, exactly when
\* the nav carries the open class.
C38_NavAgreesOutsidePrint ==
  variant = "modular" /\ ~printing =>
    /\ (nav.expanded = "true") <=> nav.isOpen
    /\ nav.isOpen <=> nav.openClass

\* MobileNav alone keeps isOpen and the open class together, print or not
C38_OpenClassFollowsIsOpen ==
  variant = "modular" => (nav.isOpen <=> nav.openClass)

\* C39: in the vanilla variant one click on an in-page link whose target
\* exists calls scrollToSection once and pushes one history entry, also
\* when the link is a navigation link.
C39_OneScrollPerClick ==
  variant = "vanilla" /\ last.op = "click"
    /\ last.arg \in {"navLink", "pageLink"}
    => last.scrolls = 1 /\ last.pushes = 1

\* an in-page link outside the navigation has the one listener of
\* SmoothScroll.init
C39_PageLinkOnce ==
  variant = "vanilla" /\ last.op = "click" /\ last.arg = "pageLink"
    => last.scrolls = 1 /\ last.pushes = 1

\* the modular SmoothScroll is the only click listener of a link
C39_ModularOnce ==
  variant = "modular" /\ last.op = "click"
    /\ last.arg \in {"navLink", "pageLink"}
    => last.scrolls = 1 /\ last.pushes = 1

\* C40: the page-global handler never throws: whatever value an error or
\* unhandledrejection event it hears carries, null and undefined included,
\* reportError completes and logs a diagnostic record.
C40_HandlerNeverThrows ==
  /\ last.op \in {"error", "unhandledrejection"}
  /\ ("window." \o last.op) \in boot.listeners
  => ~last.threw /\ last.logged

\* for an Error object or a string it completes and logs
C40_ObjectsAndStringsLogged ==
  /\ last.op \in {"error", "unhandledrejection"}
  /\ ("window." \o last.op) \in boot.listeners
  /\ last.arg \in {"Error", "string"}
  => ~last.threw /\ last.logged /\ last.record # NoRecord

====
